---- MODULE Spec2Model ----
(***************************************************************************)
(* Transactional file deployment handler (PUT / DELETE under a global     *)
(* lock): staging, backup, swap, rollback, tar extraction.                *)
(*                                                                         *)
(* Go strings are sequences of one-character strings, so that             *)
(* concatenation, HasPrefix, HasSuffix and filepath.Clean are computed    *)
(* on the characters, as the code computes them.  The filesystem is a     *)
(* function from clean absolute paths to nodes.                           *)
(***************************************************************************)
EXTENDS Integers, Sequences, FiniteSets, TLC

VARIABLES fs, lock, req, order, fs0

vars == <<fs, lock, req, order, fs0>>

----------------------------------------------------------------------------
(* Bounds of the model *)

\* number of requests served concurrently by ServeHTTP
NumRequests == 2
\* number of system calls that fail in one behaviour
MaxFaults == 2
\* number of entries of an archive walked entry by entry
MaxTarEntries == 2
\* number of path components of a tar entry name
MaxNameParts == 2
\* length of the identifiers handed to the path functions
MaxIdLen == 2
\* length of the targets handed to the path functions
MaxTargetLen == 3

----------------------------------------------------------------------------
(* Program constants *)

StatusBadRequest == 400
StatusNotFound == 404
StatusMethodNotAllowed == 405
StatusInternalServerError == 500
StatusUnprocessableEntity == 422

----------------------------------------------------------------------------
(* strings *)

\* CHOOSE result \in {e : x \in {a}} : TRUE is e with x bound to the value
\* of a: a is computed once, however often e uses x.  The operators below
\* that take the result of a system call, or recurse on a value, bind it
\* this way.

HasPrefix(s, p) ==
    Len(p) <= Len(s) /\ SubSeq(s, 1, Len(p)) = p

HasSuffix(s, t) ==
    Len(t) <= Len(s) /\ SubSeq(s, Len(s) - Len(t) + 1, Len(s)) = t

TrimSuffix(s, t) ==
    IF HasSuffix(s, t) THEN SubSeq(s, 1, Len(s) - Len(t)) ELSE s

Sep == <<"/">>

\* the elements of s between separators: "/r/f" gives "", "r", "f"
RECURSIVE Split(_)
Split(str) ==
    CHOOSE parts \in
        { IF s = <<>> THEN << <<>> >>
          ELSE CHOOSE p \in
                 { IF Head(s) = "/" THEN << <<>> >> \o rest
                   ELSE << <<Head(s)>> \o Head(rest) >> \o Tail(rest)
                   : rest \in {Split(Tail(s))} } : TRUE
          : s \in {str} } : TRUE

RECURSIVE JoinSep(_)
JoinSep(parts) ==
    IF parts = <<>> THEN <<>>
    ELSE IF Len(parts) = 1 THEN Head(parts)
    ELSE Head(parts) \o Sep \o JoinSep(Tail(parts))

\* the lexical processing of filepath.Clean: empty and "." elements are
\* dropped, ".." removes the element before it (and is dropped at the root)
RECURSIVE CleanStack(_, _, _)
CleanStack(ps, stack, rooted) ==
    CHOOSE out \in
        { IF parts = <<>> THEN st
          ELSE LET c == Head(parts)
               IN  IF c = <<>> \/ c = <<".">> THEN CleanStack(Tail(parts), st, rooted)
                   ELSE IF c = <<".", ".">>
                   THEN IF st /= <<>> /\ st[Len(st)] /= <<".", ".">>
                        THEN CleanStack(Tail(parts), SubSeq(st, 1, Len(st) - 1), rooted)
                        ELSE IF rooted THEN CleanStack(Tail(parts), st, rooted)
                        ELSE CleanStack(Tail(parts), Append(st, c), rooted)
                   ELSE CleanStack(Tail(parts), Append(st, c), rooted)
          : parts \in {ps}, st \in {stack} } : TRUE

Clean(s) ==
    IF s = <<>> THEN <<".">>
    ELSE LET rooted == s[1] = "/"
             body == JoinSep(CleanStack(Split(s), <<>>, rooted))
         IN  IF rooted THEN Sep \o body
             ELSE IF body = <<>> THEN <<".">> ELSE body

\* filepath.Join of two elements: empty elements are ignored, the rest is
\* joined by a separator and cleaned
Join(a, b) ==
    IF a = <<>> /\ b = <<>> THEN <<>>
    ELSE IF a = <<>> THEN Clean(b)
    ELSE IF b = <<>> THEN Clean(a)
    ELSE Clean(a \o Sep \o b)

\* index of the last separator of s, 0 when there is none
LastSep(s) ==
    LET at == {n \in 1..Len(s) : s[n] = "/"}
    IN  IF at = {} THEN 0 ELSE CHOOSE n \in at : \A m \in at : m <= n

\* filepath.Dir: all but the last element, cleaned
Dir(s) == Clean(SubSeq(s, 1, LastSep(s)))

----------------------------------------------------------------------------
(* the filesystem: a function from clean absolute paths to nodes *)

DirNode == [kind |-> "dir", data |-> <<>>]

FileNode(bytes) == [kind |-> "file", data |-> bytes]

\* q is p or lies below p
Under(p, q) ==
    q = p \/ HasPrefix(q, IF p = Sep THEN p ELSE p \o Sep)

\* q lies below p and is not p
StrictlyInside(p, q) == q /= p /\ Under(p, q)

\* the paths above k, k included: "/", "/r", "/r/d" for "/r/d"
PathPrefixes(k) ==
    {Sep} \cup {SubSeq(k, 1, n) : n \in {m \in 2..Len(k) :
                    k[m] /= "/" /\ (m = Len(k) \/ k[m + 1] = "/")}}

\* a component of the path above k is a regular file (ENOTDIR)
AncestorIsFile(f, k) ==
    \E a \in DOMAIN f : a /= k /\ Under(a, k) /\ f[a].kind = "file"

TrailingSep(p) == Len(p) > 1 /\ HasSuffix(p, Sep)

\* what the kernel answers for a path: "ok", "notexist" (ENOENT) or "notdir"
Resolve(f, p) ==
    CHOOSE result \in
        { IF AncestorIsFile(f, k) THEN "notdir"
          ELSE IF k \notin DOMAIN f THEN "notexist"
          ELSE IF TrailingSep(p) /\ f[k].kind = "file" THEN "notdir"
          ELSE "ok"
          : k \in {Clean(p)} } : TRUE

\* os.Stat: "ok", "notexist" (errors.Is(err, os.ErrNotExist)) or "error";
\* flt = "fail" is an I/O or permission failure of the call
Stat(f, p, flt) ==
    IF flt = "fail" THEN "error"
    ELSE LET r == Resolve(f, p)
         IN  IF r = "notdir" THEN "error" ELSE r

\* the tree at p, as paths relative to p; {} when nothing is at p
Snapshot(f, p) ==
    CHOOSE result \in
        { {<<SubSeq(q, Len(k) + 1, Len(q)), f[q]>> : q \in {x \in DOMAIN f : Under(k, x)}}
          : k \in {Clean(p)} } : TRUE

\* f without the tree at k
Without(f, k) ==
    [q \in {x \in DOMAIN f : ~Under(k, x)} |-> f[q]]

\* os.Rename: atomic, fails without any change.  Go refuses to rename onto
\* an existing directory; a regular file is replaced by a regular file.
Rename(f, old, new, flt) ==
    CHOOSE result \in
        { LET moved == {x \in DOMAIN f : Under(ko, x)}
              to(x) == kn \o SubSeq(x, Len(ko) + 1, Len(x))
              rest == {x \in DOMAIN f : ~Under(ko, x) /\ x /= kn}
              bad == \/ flt /= "ok"
                     \/ Resolve(f, old) /= "ok"
                     \/ AncestorIsFile(f, kn)
                     \/ Dir(kn) \notin DOMAIN f
                     \/ (kn \in DOMAIN f /\ f[kn].kind = "dir")
                     \/ (kn \in DOMAIN f /\ f[ko].kind = "dir")
                     \/ (TrailingSep(new) /\ f[ko].kind = "file")
                     \/ StrictlyInside(ko, kn)
          IN  IF bad THEN [fs |-> f, err |-> TRUE]
              ELSE IF ko = kn THEN [fs |-> f, err |-> FALSE]
              ELSE [fs |-> [x \in rest \cup {to(y) : y \in moved} |->
                              IF x \in rest THEN f[x]
                              ELSE f[CHOOSE y \in moved : to(y) = x]],
                    err |-> FALSE]
          : ko \in {Clean(old)},
            kn \in {Clean(new)} } : TRUE

\* os.RemoveAll: removes the tree at p; nothing at p is a success.  A
\* failure of the call (I/O, permission) removes nothing ("fail"), what
\* ever is at p, or leaves the emptied directory ("partial").
RemoveAll(f, p, flt) ==
    CHOOSE result \in
        { IF AncestorIsFile(f, k) THEN [fs |-> f, err |-> TRUE]
          ELSE IF flt = "fail" THEN [fs |-> f, err |-> TRUE]
          ELSE IF k \notin DOMAIN f THEN [fs |-> f, err |-> FALSE]
          ELSE IF flt = "partial"
          THEN [fs |-> [q \in {x \in DOMAIN f : ~StrictlyInside(k, x)} |-> f[q]],
                err |-> TRUE]
          ELSE [fs |-> Without(f, k), err |-> FALSE]
          : k \in {Clean(p)} } : TRUE

\* os.MkdirAll: creates p and its missing parents; an existing directory is
\* a success, a regular file on the way an error.  A failure creates
\* nothing ("fail") or only the first missing parent ("partial").
MkdirAll(f, p, flt) ==
    CHOOSE result \in
        { LET missing == {a \in PathPrefixes(k) : a \notin DOMAIN f}
              first == {a \in missing : \A b \in missing : Len(a) <= Len(b)}
              with(new) == [q \in DOMAIN f \cup new |-> IF q \in DOMAIN f THEN f[q] ELSE DirNode]
          IN  IF AncestorIsFile(f, k) \/ (k \in DOMAIN f /\ f[k].kind = "file")
              THEN [fs |-> f, err |-> TRUE]
              ELSE IF missing = {} THEN [fs |-> f, err |-> FALSE]
              ELSE IF flt = "fail" THEN [fs |-> f, err |-> TRUE]
              ELSE IF flt = "partial"
              THEN [fs |-> IF Cardinality(missing) > 1 THEN with(first) ELSE f, err |-> TRUE]
              ELSE [fs |-> with(missing), err |-> FALSE]
          : k \in {Clean(p)} } : TRUE

\* os.OpenFile(O_CREATE|O_WRONLY, excl or trunc) followed by io.Copy of
\* bytes: "fail" is a failure of the open, "partial" a failure of the copy
\* after the file was created (a proper prefix of the bytes is written).
WriteFile(f, p, bytes, excl, flt) ==
    CHOOSE result \in
        { LET put(b) == [q \in DOMAIN f \cup {k} |-> IF q = k THEN FileNode(b) ELSE f[q]]
              bad == \/ flt = "fail"
                     \/ AncestorIsFile(f, k)
                     \/ Dir(k) \notin DOMAIN f
                     \/ (k \in DOMAIN f /\ (excl \/ f[k].kind = "dir"))
          IN  IF bad THEN [fs |-> f, err |-> TRUE]
              ELSE IF flt = "partial" THEN [fs |-> put(<<>>), err |-> TRUE]
              ELSE [fs |-> put(bytes), err |-> FALSE]
          : k \in {Clean(p)} } : TRUE

----------------------------------------------------------------------------
(* path resolver *)

BackupSuffix == <<"-", "b", "a", "c", "k", "u", "p">>

TempSuffix == <<"-", "t", "m", "p">>

\* a backup path that keeps the separator of the target in the middle
getBackupPathKeepSep(id, target) == target \o <<".">> \o id \o BackupSuffix

getBackupPath(id, target) ==
    IF HasSuffix(target, Sep)
    THEN TrimSuffix(target, Sep) \o <<".">> \o id \o BackupSuffix \o Sep
    ELSE target \o <<".">> \o id \o BackupSuffix

\* a temporary path that keeps the separator of the target in the middle
getTempPathKeepSep(id, target) == target \o <<".">> \o id \o TempSuffix

getTempPath(id, target) ==
    IF HasSuffix(target, Sep)
    THEN TrimSuffix(target, Sep) \o <<".">> \o id \o TempSuffix \o Sep
    ELSE target \o <<".">> \o id \o TempSuffix

\* caddyhttp.SanitizedPathJoin: the cleaned request path joined onto the
\* root, the trailing separator of the request path kept
SanitizedPathJoin(root, reqPath) ==
    LET rel == Tail(Clean(Sep \o reqPath))
        joined == Join(root, rel)
    IN  IF HasSuffix(reqPath, Sep) /\ ~HasSuffix(joined, Sep)
        THEN joined \o Sep
        ELSE joined

\* the target of a request, as ServeHTTP computes it
TargetOf(root, reqPath) ==
    LET t == SanitizedPathJoin(root, reqPath)
    IN  IF t = root THEN t \o Sep ELSE t

----------------------------------------------------------------------------
(* request bodies: a byte stream, and what the tar and gzip readers make  *)
(* of it                                                                   *)

RawBody(bytes) == [fmt |-> "raw", bytes |-> bytes, entries |-> <<>>]

\* a well-formed tar stream of the entries es
TarBody(es) == [fmt |-> "tar", bytes |-> <<"t">>, entries |-> es]

\* a gzip stream of a well-formed tar stream
TarGzBody(es) == [fmt |-> "targz", bytes |-> <<"z">>, entries |-> es]

Entry(name, typeflag, data) == [name |-> name, typeflag |-> typeflag, data |-> data]

\* a tar reader that takes an empty stream for a broken archive
TarReadStrict(body) ==
    IF body.fmt = "tar" THEN [entries |-> body.entries, err |-> FALSE]
    ELSE [entries |-> <<>>, err |-> TRUE]

\* tar.Reader over a stream: an empty stream is an archive without
\* entries; bytes that are no tar stream fail at the first Next
TarRead(body) ==
    IF body.fmt = "tar" THEN [entries |-> body.entries, err |-> FALSE]
    ELSE IF body.bytes = <<>> THEN [entries |-> <<>>, err |-> FALSE]
    ELSE [entries |-> <<>>, err |-> TRUE]

\* gzip.NewReader: fails unless the stream starts with a gzip header
GzipRead(body) ==
    IF body.fmt = "targz"
    THEN [body |-> TarBody(body.entries), err |-> FALSE]
    ELSE [body |-> body, err |-> TRUE]

----------------------------------------------------------------------------
(* errors *)

\* ErrorDeployement{StatusCode, Private, Public}; the private message is
\* its format text, the paths formatted into it and the errors it wraps
ErrorDeployement(status, text, paths, wraps, public) ==
    [status |-> status,
     private |-> [text |-> text, paths |-> paths, wraps |-> wraps],
     public |-> public]

\* a nil *ErrorDeployement
NoError == ErrorDeployement(0, "", <<>>, <<>>, "")

ServerError(text, paths, wraps) ==
    ErrorDeployement(StatusInternalServerError, text, paths, wraps, "")

----------------------------------------------------------------------------
(* archive extractor *)

Extracted(f, e) == [fs |-> f, err |-> e]

\* the result of extractFile from the result w of the write onto f
FileExtracted(f, target, w0) ==
    CHOOSE result \in
        { IF w.err /\ w.fs = f
          THEN Extracted(w.fs, ServerError("failed to open target file for extraction",
                                           <<target>>, <<"os.OpenFile">>))
          ELSE IF w.err
          THEN Extracted(w.fs, ServerError("failed to copy data to file for extraction",
                                           <<target>>, <<"io.Copy">>))
          ELSE Extracted(w.fs, NoError)
          : w \in {w0} } : TRUE

\* an extraction that creates the file and copies nothing of the body
extractNothing(f, target, body, flt) ==
    FileExtracted(f, target, WriteFile(f, target, <<>>, TRUE, flt))

\* an extraction that truncates the file that is at target
extractFileTrunc(f, target, body, flt) ==
    FileExtracted(f, target, WriteFile(f, target, body.bytes, FALSE, flt))

\* extractFile: exclusive create of target, then copy of the body
extractFile(f, target, body, flt) ==
    FileExtracted(f, target, WriteFile(f, target, body.bytes, TRUE, flt))

\* a traversal check on the string prefix alone, without the separator
ContainedNoSep(targetPath, target) ==
    HasPrefix(targetPath, Clean(target))

\* the path traversal check of extractTar
Contained(targetPath, target) ==
    HasPrefix(targetPath, Clean(target) \o Sep)

ErrExtractTar(wrapped) == ServerError("failed to extract tar", <<>>, <<wrapped>>)

\* case tar.TypeDir, from the result m of MkdirAll
DirExtracted(m0) ==
    CHOOSE result \in
        { Extracted(m.fs, IF m.err THEN ErrExtractTar("os.MkdirAll") ELSE NoError)
          : m \in {m0} } : TRUE

\* a regular-file entry reported as extracted without the file being made
RegDropped(pf, w) == Extracted(pf, NoError)

\* case tar.TypeReg after the parent was made (filesystem pf): from the
\* result w of opening and copying
RegWritten(pf, w0) ==
    CHOOSE result \in
        { IF w.err /\ w.fs = pf THEN Extracted(w.fs, ErrExtractTar("os.OpenFile"))
          ELSE IF w.err THEN Extracted(w.fs, ErrExtractTar("io.Copy"))
          ELSE Extracted(w.fs, NoError)
          : w \in {w0} } : TRUE

\* case tar.TypeReg, from the result m of MkdirAll of the parent
RegExtracted(m0, targetPath, hdr, flt) ==
    CHOOSE result \in
        { IF m.err THEN Extracted(m.fs, ErrExtractTar("os.MkdirAll"))
          ELSE RegWritten(m.fs, WriteFile(m.fs, targetPath, hdr.data, FALSE, flt))
          : m \in {m0} } : TRUE

\* a walk that extracts every entry that is no directory as a regular file
ExtractAtAsFile(f, target, hdr, flt, targetPath) ==
    IF ~Contained(targetPath, target)
    THEN Extracted(f, ServerError("security error: path traversal", <<>>, <<"nil">>))
    ELSE IF hdr.typeflag = "dir" THEN DirExtracted(MkdirAll(f, targetPath, flt))
    ELSE RegExtracted(MkdirAll(f, Dir(targetPath), "ok"), targetPath, hdr, flt)

\* one entry of the walk of extractTar, its path joined onto the target
ExtractAt(f, target, hdr, flt, targetPath0) ==
    CHOOSE result \in
        { IF ~Contained(targetPath, target)
          THEN Extracted(f, ServerError("security error: path traversal", <<>>, <<"nil">>))
          ELSE IF hdr.typeflag = "dir" THEN DirExtracted(MkdirAll(f, targetPath, flt))
          ELSE IF hdr.typeflag = "reg"
          THEN RegExtracted(MkdirAll(f, Dir(targetPath), "ok"), targetPath, hdr, flt)
          ELSE Extracted(f, NoError)
          : targetPath \in {targetPath0} } : TRUE

ExtractEntry(f, target, hdr, flt) ==
    ExtractAt(f, target, hdr, flt, Join(target, hdr.name))

\* the walk of extractTar over the entries the reader yields; the fault
\* flt hits the last entry, the entries before it are extracted
RECURSIVE WalkTar(_, _, _, _)

\* the walk after an entry was extracted with result e
Walked(e0, target, entries, flt) ==
    CHOOSE result \in
        { IF e.err.status /= 0 THEN e
          ELSE WalkTar(e.fs, target, Tail(entries), flt)
          : e \in {e0} } : TRUE

WalkTar(f, target, entries, flt) ==
    IF entries = <<>> THEN Extracted(f, NoError)
    ELSE Walked(ExtractEntry(f, target, Head(entries),
                             IF Len(entries) = 1 THEN flt ELSE "ok"),
                target, entries, flt)

\* extractTar over what the tar reader yields
TarExtracted(f, target, t0, flt) ==
    CHOOSE result \in
        { IF t.err \/ (t.entries = <<>> /\ flt /= "ok")
          THEN Extracted(f, ErrExtractTar("tar.Next"))
          ELSE WalkTar(f, target, t.entries, flt)
          : t \in {t0} } : TRUE

extractTar(f, target, body, flt) ==
    TarExtracted(f, target, TarRead(body), flt)

\* extractTarGz over what the gzip reader yields
GzExtracted(f, target, g0, flt) ==
    CHOOSE result \in
        { IF g.err
          THEN Extracted(f, ServerError("failed to wrap body in gzip reader", <<>>,
                                        <<"gzip.NewReader">>))
          ELSE extractTar(f, target, g.body, flt)
          : g \in {g0} } : TRUE

extractTarGz(f, target, body, flt) ==
    GzExtracted(f, target, GzipRead(body), flt)

TarTypes == {"application/x-tar", "application/tar"}

TarGzTypes == {"application/x-tar+gzip", "application/tar+gzip",
               "application/x-gzip", "application/gzip"}

\* a dispatch that takes "application/x-gzip" for a plain tar stream
extractDirectoryGzipPlain(f, target, body, contentType, flt) ==
    IF contentType \in TarTypes \cup {"application/x-gzip"}
    THEN extractTar(f, target, body, flt)
    ELSE IF contentType \in TarGzTypes THEN extractTarGz(f, target, body, flt)
    ELSE Extracted(f, ErrorDeployement(StatusBadRequest, "bad content-type", <<>>, <<>>,
                                       "bad content-type"))

extractDirectory(f, target, body, contentType, flt) ==
    IF contentType \in TarTypes THEN extractTar(f, target, body, flt)
    ELSE IF contentType \in TarGzTypes THEN extractTarGz(f, target, body, flt)
    ELSE Extracted(f, ErrorDeployement(StatusBadRequest,
            "bad content-type: only 'application/x-tar' and 'application/x-tar+gzip' are allowed for directories",
            <<>>, <<>>,
            "bad content-type: only 'application/x-tar' and 'application/x-tar+gzip' are allowed"))

----------------------------------------------------------------------------
(* the deployment transaction *)

\* result of one step of a handler: the filesystem and the request after it
Stepped(f, r) == [fs |-> f, r |-> r]

\* the step is recorded as failed (history, for the properties)
Failed(r) == [r EXCEPT !.failed = @ \cup {r.pc}]

\* a handler that closes the body only when it returns nil
BodyCloseOnSuccess(r) ==
    IF r.method = "PUT" /\ r.err.status = 0 THEN [r EXCEPT !.closed = TRUE] ELSE r

\* the deferred r.Body.Close() of HandlePut, the first call it defers and
\* the last to run; HandleDelete defers none
BodyClose(r) ==
    IF r.method = "PUT" THEN [r EXCEPT !.closed = TRUE] ELSE r

\* HandlePut returns e: its deferred backup cleanup runs when it was
\* registered, then ServeHTTP answers
Return(r, e) ==
    IF r.deferCleanup THEN [r EXCEPT !.err = e, !.pc = "cleanup"]
    ELSE BodyClose([r EXCEPT !.err = e, !.pc = "respond"])

\* a step whose system call result x (fs, err) either makes the handler
\* return the error e or lets it go on at pc next
Checked(r, x0, e, next) ==
    CHOOSE result \in
        { IF x.err THEN Stepped(x.fs, Return(Failed(r), e))
          ELSE Stepped(x.fs, [r EXCEPT !.pc = next])
          : x \in {x0} } : TRUE

ErrSwap(r) ==
    ServerError("failed to swap temporary directoy with target",
                <<getTempPath(r.id, r.target), r.target>>, <<"os.Rename">>)

\* the error of a failed swap whose rollback failed: the swap error is
\* formatted into it twice, the rollback error is not
ErrSwapAndRollback(r) ==
    ServerError("failed to swap temporary directoy with target AND failed to rollback",
                <<getTempPath(r.id, r.target), r.target>>,
                <<"failed to swap temporary directoy with target",
                  "failed to swap temporary directoy with target">>)

\* rollback returned nil, HandlePut returns the swap error
RolledBack(f, r) == Stepped(f, Return(r, ErrSwap(r)))

\* rollback returned an error
RollbackFailed(f, r) ==
    Stepped(f, Return([Failed(r) EXCEPT !.rollbackErr = TRUE], ErrSwapAndRollback(r)))

\* a rollback that goes on to clean the target when there is no backup
StatBackupBlind(f, r, st) ==
    IF st = "error" THEN RollbackFailed(f, r)
    ELSE Stepped(f, [r EXCEPT !.pc = "rb_remove"])

\* rollback: os.Stat of the backup
StatBackup(f, r, st0) ==
    CHOOSE result \in
        { IF st = "notexist" THEN RolledBack(f, r)
          ELSE IF st = "error" THEN RollbackFailed(f, r)
          ELSE Stepped(f, [r EXCEPT !.pc = "rb_remove"])
          : st \in {st0} } : TRUE

RollbackStatStep(f, r, flt) ==
    StatBackup(f, r, Stat(f, getBackupPath(r.id, r.target), flt))

\* a rollback that goes on to the restore whatever the removal returned
TargetRemovedAnyway(r, rm) == Stepped(rm.fs, [r EXCEPT !.pc = "rb_rename"])

\* rollback: os.RemoveAll of the target
TargetRemoved(r, rm0) ==
    CHOOSE result \in
        { IF rm.err THEN RollbackFailed(rm.fs, r)
          ELSE Stepped(rm.fs, [r EXCEPT !.pc = "rb_rename"])
          : rm \in {rm0} } : TRUE

RollbackRemoveStep(f, r, flt) ==
    TargetRemoved(r, RemoveAll(f, r.target, flt))

\* a restore that reports success without renaming the backup
RestoreSkipped(f, targetbackup, target, flt) == [fs |-> f, err |-> FALSE]

\* the restore rename of rollback
RestoreBackup(f, targetbackup, target, flt) ==
    Rename(f, targetbackup, target, flt)

\* rollback: the backup renamed onto the target, then os.RemoveAll of the
\* backup path
BackupRestored(r, rn0) ==
    CHOOSE result \in
        { IF rn.err THEN RollbackFailed(rn.fs, r)
          ELSE RolledBack(RemoveAll(rn.fs, getBackupPath(r.id, r.target), "ok").fs, r)
          : rn \in {rn0} } : TRUE

RollbackRenameStep(f, r, flt) ==
    BackupRestored(r, RestoreBackup(f, getBackupPath(r.id, r.target), r.target, flt))

\* the steps of rollback(id, target)
rollback(f, r, flt) ==
    CASE r.pc = "rb_stat" -> RollbackStatStep(f, r, flt)
      [] r.pc = "rb_remove" -> RollbackRemoveStep(f, r, flt)
      [] r.pc = "rb_rename" -> RollbackRenameStep(f, r, flt)

isDirectory(r) == HasSuffix(r.target, Sep)

\* the directory HandlePut creates before extracting
targetTempDir(r) ==
    IF isDirectory(r) THEN getTempPath(r.id, r.target) ELSE Dir(r.target)

\* HandlePut: os.MkdirAll(targetTempDir)
PutMkdirStep(f, r, flt) ==
    Checked(r, MkdirAll(f, targetTempDir(r), flt),
            ServerError("failed to create target directory", <<r.target>>,
                        <<"os.MkdirAll">>),
            "extract")

\* HandlePut: the body extracted into the temporary location
BodyExtracted(r, x0) ==
    CHOOSE result \in
        { IF x.err.status /= 0 THEN Stepped(x.fs, Return(Failed(r), x.err))
          ELSE Stepped(x.fs, [r EXCEPT !.pc = "stat",
                                       !.staged = Snapshot(x.fs, getTempPath(r.id, r.target))])
          : x \in {x0} } : TRUE

PutExtractStep(f, r, flt) ==
    BodyExtracted(r,
        IF isDirectory(r)
        THEN extractDirectory(f, getTempPath(r.id, r.target), r.body, r.ctype, flt)
        ELSE extractFile(f, getTempPath(r.id, r.target), r.body, flt))

\* a handler that never backs the target up
BackupNever(statResult) == FALSE

\* "if err == nil" of the stat of the target: the target is backed up
BackupNeeded(statResult) == statResult = "ok"

\* HandlePut: os.Stat(target)
TargetStated(f, r, st0) ==
    CHOOSE result \in
        { IF st = "error"
          THEN Stepped(f, Return(Failed(r),
                                 ServerError("could not stat target", <<>>, <<"os.Stat">>)))
          ELSE Stepped(f, [r EXCEPT !.exists = (st = "ok"),
                                    !.pc = IF BackupNeeded(st) THEN "backup" ELSE "swap"])
          : st \in {st0} } : TRUE

PutStatStep(f, r, flt) == TargetStated(f, r, Stat(f, r.target, flt))

\* a handler that calls rollback when the backup rename fails
BackupFailureRolledBack(r, rn) ==
    IF rn.err THEN Stepped(rn.fs, [Failed(r) EXCEPT !.pc = "rb_stat"])
    ELSE Stepped(rn.fs, [r EXCEPT !.pc = "swap", !.deferCleanup = TRUE])

\* HandlePut: the target renamed to the backup path, the cleanup deferred
TargetBackedUp(r, rn0) ==
    CHOOSE result \in
        { IF rn.err
          THEN Stepped(rn.fs, Return(Failed(r),
                          ServerError("failed to backup target directory", <<r.target>>,
                                      <<"os.Rename">>)))
          ELSE Stepped(rn.fs, [r EXCEPT !.pc = "swap", !.deferCleanup = TRUE])
          : rn \in {rn0} } : TRUE

PutBackupStep(f, r, flt) ==
    TargetBackedUp(r, Rename(f, r.target, getBackupPath(r.id, r.target), flt))

\* the swap of HandlePut: one os.Rename
SwapRename(f, targetTemp, target, flt) == Rename(f, targetTemp, target, flt)

\* HandlePut: the temporary location renamed onto the target
Swapped(r, rn0) ==
    CHOOSE result \in
        { IF rn.err
          THEN Stepped(rn.fs, [Failed(r) EXCEPT !.swapErr = TRUE, !.pc = "rb_stat"])
          ELSE Stepped(rn.fs, Return(r, NoError))
          : rn \in {rn0} } : TRUE

PutSwapStep(f, r, flt) ==
    Swapped(r, SwapRename(f, getTempPath(r.id, r.target), r.target, flt))

\* a deferred cleanup that does not look at err
CleanupAlways(r) == TRUE

\* "if err == nil" of the deferred cleanup: err is the result of the swap
CleanupWanted(r) == ~r.swapErr

\* a deferred function whose error becomes the error of the request
BackupCleanedFatal(r, rm) ==
    Stepped(rm.fs,
            [(IF rm.err
              THEN [Failed(r) EXCEPT !.err = ServerError("failed to remove backup", <<>>,
                                                         <<"os.RemoveAll">>)]
              ELSE r) EXCEPT !.pc = "respond"])

\* the deferred function of HandlePut: its error is logged, not returned
BackupCleaned(r, rm0) ==
    CHOOSE result \in
        { Stepped(rm.fs, BodyClose([(IF rm.err THEN Failed(r) ELSE r)
                                        EXCEPT !.pc = "respond"]))
          : rm \in {rm0} } : TRUE

\* a deferred function that leaves the backup where it is
CleanupSkipped(f, r, flt) == Stepped(f, [r EXCEPT !.pc = "respond"])

PutCleanupStep(f, r, flt) ==
    IF CleanupWanted(r)
    THEN BackupCleaned(r, RemoveAll(f, getBackupPath(r.id, r.target), flt))
    ELSE Stepped(f, BodyClose([r EXCEPT !.pc = "respond"]))

\* the steps of HandlePut(id, target, r), rollback apart
HandlePut(f, r, flt) ==
    CASE r.pc = "mkdir" -> PutMkdirStep(f, r, flt)
      [] r.pc = "extract" -> PutExtractStep(f, r, flt)
      [] r.pc = "stat" -> PutStatStep(f, r, flt)
      [] r.pc = "backup" -> PutBackupStep(f, r, flt)
      [] r.pc = "swap" -> PutSwapStep(f, r, flt)
      [] r.pc = "cleanup" -> PutCleanupStep(f, r, flt)

\* a delete that goes on to the removal when nothing is at the target
DeleteStatedLax(f, r, st) ==
    IF st = "error"
    THEN Stepped(f, Return(Failed(r),
                           ServerError("could not stat target", <<>>, <<"os.Stat">>)))
    ELSE Stepped(f, [r EXCEPT !.pc = "del_remove"])

\* HandleDelete: os.Stat(target)
DeleteStated(f, r, st0) ==
    CHOOSE result \in
        { IF st = "error"
          THEN Stepped(f, Return(Failed(r),
                                 ServerError("could not stat target", <<>>, <<"os.Stat">>)))
          ELSE IF st = "notexist"
          THEN Stepped(f, Return(Failed(r),
                          ErrorDeployement(StatusNotFound,
                              "trying to delete a target that does not exist",
                              <<>>, <<"os.Stat">>, "Not Found.")))
          ELSE Stepped(f, [r EXCEPT !.pc = "del_remove"])
          : st \in {st0} } : TRUE

DeleteStatStep(f, r, flt) == DeleteStated(f, r, Stat(f, r.target, flt))

\* a delete that reports success without removing the target
DeleteForgotten(f, r, flt) == Stepped(f, [r EXCEPT !.pc = "respond"])

\* HandleDelete: os.RemoveAll(target)
DeleteRemoveStep(f, r, flt) ==
    Checked(r, RemoveAll(f, r.target, flt),
            ServerError("failed to delete target", <<>>, <<"os.RemoveAll">>),
            "respond")

\* the steps of HandleDelete(id, target, r)
HandleDelete(f, r, flt) ==
    CASE r.pc = "del_stat" -> DeleteStatStep(f, r, flt)
      [] r.pc = "del_remove" -> DeleteRemoveStep(f, r, flt)

PutPcs == {"mkdir", "extract", "stat", "backup", "swap", "cleanup"}

RollbackPcs == {"rb_stat", "rb_remove", "rb_rename"}

DeletePcs == {"del_stat", "del_remove"}

HandlerPcs == PutPcs \cup RollbackPcs \cup DeletePcs

\* the ways the system call of a step can go: "fail" changes nothing,
\* "partial" fails after a part of the work was done, "xdev" is the
\* rename of the swap failing with "invalid cross-device link"
FaultsAt(r) ==
    IF r.pc = "cleanup" /\ ~CleanupWanted(r) THEN {"ok"}
    ELSE IF r.pc \in {"mkdir", "extract", "rb_remove", "cleanup", "del_remove"}
    THEN {"ok", "fail", "partial"}
    ELSE IF r.pc = "swap" THEN {"ok", "fail", "xdev"}
    ELSE {"ok", "fail"}

\* the fault of the step is recorded (history, for the properties)
Traced(s0, flt) ==
    CHOOSE result \in
        { Stepped(s.fs, [s.r EXCEPT !.trace = Append(@, flt)])
          : s \in {s0} } : TRUE

\* one step of the handler of request r
HandlerStep(f, r, flt) ==
    Traced(IF r.pc \in RollbackPcs THEN rollback(f, r, flt)
           ELSE IF r.pc \in DeletePcs THEN HandleDelete(f, r, flt)
           ELSE HandlePut(f, r, flt),
           flt)

-----
(* requests *)

Reqs == 1..NumRequests

\* the site root of the deployer
Root == <<"/", "r">>

PathFile == <<"/", "f">>

PathDir == <<"/", "d", "/">>

\* the path of the directory, without the trailing separator: a file target
PathDirAsFile == <<"/", "d">>

IdChars == <<"1", "2", "3", "4">>

\* GetId: 8 random bytes, base64; every request draws its own identifier
GetId(i) == <<IdChars[i]>>

Template(method, path, ctype, body) ==
    [method |-> method, path |-> path, ctype |-> ctype, body |-> body]

\* the requests of the concurrent specification
Templates ==
    { Template("PUT", PathFile, "application/octet-stream", RawBody(<<"a">>)),
      Template("PUT", PathFile, "application/octet-stream", RawBody(<<>>)),
      Template("PUT", PathDir, "application/x-tar",
               TarBody(<<Entry(<<"a">>, "reg", <<"b">>)>>)),
      Template("PUT", PathDir, "application/x-tar", RawBody(<<>>)),
      Template("PUT", PathDirAsFile, "application/octet-stream", RawBody(<<"a">>)),
      Template("DELETE", PathDir, "", RawBody(<<>>)),
      Template("GET", PathFile, "", RawBody(<<>>)),
      Template("POST", PathDir, "application/x-tar",
               TarBody(<<Entry(<<"a">>, "reg", <<"b">>)>>)),
      Template("PUT", getTempPath(GetId(2), PathFile), "application/octet-stream",
               RawBody(<<"s">>)) }

NoResponse == [code |-> 0, text |-> "", paths |-> <<>>, wraps |-> <<>>]

NewRequest(t) ==
    [method |-> t.method, path |-> t.path, ctype |-> t.ctype, body |-> t.body,
     id |-> <<>>, target |-> <<>>, pc |-> "waiting", err |-> NoError,
     deferCleanup |-> FALSE, swapErr |-> FALSE, rollbackErr |-> FALSE,
     exists |-> FALSE, failed |-> {}, old |-> {}, staged |-> {}, before |-> <<>>,
     trace |-> <<>>, response |-> NoResponse, closed |-> FALSE]

\* the filesystem before the first request: the root alone, or the root
\* with a file and a directory deployed in it
EmptySite == (Sep :> DirNode) @@ (Root :> DirNode)

DeployedSite ==
    EmptySite @@ (<<"/", "r", "/", "f">> :> FileNode(<<"o">>))
              @@ (<<"/", "r", "/", "d">> :> DirNode)
              @@ (<<"/", "r", "/", "d", "/", "o">> :> FileNode(<<"o">>))

InitialSites == {EmptySite, DeployedSite}

----------------------------------------------------------------------------
(* ServeHTTP *)

\* a lock that is always granted
LockGranted(l) == TRUE

\* lock.Lock() succeeds when no request holds the lock
TryLock(l) == l = 0

\* the faults injected so far
RECURSIVE CountFaults(_)
CountFaults(trace) ==
    IF trace = <<>> THEN 0
    ELSE (IF Head(trace) = "ok" THEN 0 ELSE 1) + CountFaults(Tail(trace))

RECURSIVE SumFaults(_, _)
SumFaults(rq, n) ==
    IF n = 0 THEN 0 ELSE CountFaults(rq[n].trace) + SumFaults(rq, n - 1)

FaultsUsed == SumFaults(req, NumRequests)

\* a switch whose default case is the DELETE handler
DispatchLax(f, r, i) ==
    LET target == TargetOf(Root, r.path)
        s == [r EXCEPT !.id = GetId(i), !.target = target,
                       !.old = Snapshot(f, target), !.before = f]
    IN  IF r.method = "PUT" THEN [s EXCEPT !.pc = "mkdir"]
        ELSE [s EXCEPT !.pc = "del_stat"]

\* ServeHTTP up to the dispatch on the method: the lock is taken, the
\* identifier drawn, the target computed
Dispatch(f, r, i) ==
    LET target == TargetOf(Root, r.path)
        s == [r EXCEPT !.id = GetId(i), !.target = target,
                       !.old = Snapshot(f, target), !.before = f]
    IN  IF r.method = "PUT" THEN [s EXCEPT !.pc = "mkdir"]
        ELSE IF r.method = "DELETE" THEN [s EXCEPT !.pc = "del_stat"]
        ELSE [s EXCEPT !.pc = "respond",
                       !.err = ErrorDeployement(StatusMethodNotAllowed,
                                   "unauthorized method", <<>>, <<>>, "")]

\* what ServeHTTP writes to the response and returns
Response(r) ==
    IF r.method \notin {"PUT", "DELETE"}
    THEN [code |-> StatusMethodNotAllowed, text |-> "Unauthorized method: %s\n",
          paths |-> <<>>, wraps |-> <<r.method>>]
    ELSE IF r.err.status /= 0
    THEN [code |-> r.err.status, text |-> r.err.private.text,
          paths |-> r.err.private.paths, wraps |-> r.err.private.wraps]
    ELSE NoResponse

Acquire(i) ==
    /\ req[i].pc = "waiting"
    /\ TryLock(lock)
    /\ lock' = i
    /\ req' = [req EXCEPT ![i] = Dispatch(fs, req[i], i)]
    /\ order' = Append(order, i)
    /\ UNCHANGED <<fs, fs0>>

\* the results the system call of the next step of request r can have, the
\* failures within the bound
Faults(r) == {flt \in FaultsAt(r) : flt /= "ok" => FaultsUsed < MaxFaults}

\* one step of the handler of request i, the lock held, with result s
StepTo(i, s) ==
    /\ fs' = s.fs
    /\ req' = [req EXCEPT ![i] = s.r]
    /\ UNCHANGED <<lock, order, fs0>>

PutMkdir(i) ==
    /\ req[i].pc = "mkdir"
    /\ \E flt \in Faults(req[i]) : StepTo(i, Traced(PutMkdirStep(fs, req[i], flt), flt))

PutExtract(i) ==
    /\ req[i].pc = "extract"
    /\ \E flt \in Faults(req[i]) : StepTo(i, Traced(PutExtractStep(fs, req[i], flt), flt))

PutStat(i) ==
    /\ req[i].pc = "stat"
    /\ \E flt \in Faults(req[i]) : StepTo(i, Traced(PutStatStep(fs, req[i], flt), flt))

PutBackup(i) ==
    /\ req[i].pc = "backup"
    /\ \E flt \in Faults(req[i]) : StepTo(i, Traced(PutBackupStep(fs, req[i], flt), flt))

PutSwap(i) ==
    /\ req[i].pc = "swap"
    /\ \E flt \in Faults(req[i]) : StepTo(i, Traced(PutSwapStep(fs, req[i], flt), flt))

PutCleanup(i) ==
    /\ req[i].pc = "cleanup"
    /\ \E flt \in Faults(req[i]) : StepTo(i, Traced(PutCleanupStep(fs, req[i], flt), flt))

RollbackStat(i) ==
    /\ req[i].pc = "rb_stat"
    /\ \E flt \in Faults(req[i]) : StepTo(i, Traced(RollbackStatStep(fs, req[i], flt), flt))

RollbackRemove(i) ==
    /\ req[i].pc = "rb_remove"
    /\ \E flt \in Faults(req[i]) : StepTo(i, Traced(RollbackRemoveStep(fs, req[i], flt), flt))

RollbackRename(i) ==
    /\ req[i].pc = "rb_rename"
    /\ \E flt \in Faults(req[i]) : StepTo(i, Traced(RollbackRenameStep(fs, req[i], flt), flt))

DeleteStat(i) ==
    /\ req[i].pc = "del_stat"
    /\ \E flt \in Faults(req[i]) : StepTo(i, Traced(DeleteStatStep(fs, req[i], flt), flt))

DeleteRemove(i) ==
    /\ req[i].pc = "del_remove"
    /\ \E flt \in Faults(req[i]) : StepTo(i, Traced(DeleteRemoveStep(fs, req[i], flt), flt))

\* the handler has returned: ServeHTTP answers and its deferred
\* lock.Unlock() runs
\* a return of ServeHTTP that leaves the lock held
UnlockForgotten(l) == l

\* the deferred lock.Unlock()
Unlock(l) == 0

Respond(i) ==
    /\ req[i].pc = "respond"
    /\ req' = [req EXCEPT ![i] = [req[i] EXCEPT !.pc = "done",
                                                 !.response = Response(req[i])]]
    /\ lock' = Unlock(lock)
    /\ UNCHANGED <<fs, order, fs0>>

Init ==
    /\ fs \in InitialSites
    /\ fs0 = fs
    /\ lock = 0
    /\ order = <<>>
    /\ req \in [Reqs -> {NewRequest(t) : t \in Templates}]

Next ==
    \E i \in Reqs :
        \/ Acquire(i)
        \/ PutMkdir(i)
        \/ PutExtract(i)
        \/ PutStat(i)
        \/ PutBackup(i)
        \/ PutSwap(i)
        \/ PutCleanup(i)
        \/ RollbackStat(i)
        \/ RollbackRemove(i)
        \/ RollbackRename(i)
        \/ DeleteStat(i)
        \/ DeleteRemove(i)
        \/ Respond(i)

Spec == Init /\ [][Next]_vars

\* requests of every kind on the deployed site: a file upload, a
\* directory upload, a delete and a method that is not allowed
InitFair ==
    /\ fs = DeployedSite
    /\ fs0 = fs
    /\ lock = 0
    /\ order = <<>>
    /\ req \in [Reqs -> {NewRequest(t) : t \in
            { Template("PUT", PathFile, "application/octet-stream", RawBody(<<"a">>)),
              Template("PUT", PathDir, "application/x-tar",
                       TarBody(<<Entry(<<"a">>, "reg", <<"b">>)>>)),
              Template("DELETE", PathDir, "", RawBody(<<>>)),
              Template("GET", PathFile, "", RawBody(<<>>)) }}]

\* the scheduler lets a goroutine that can take a step take it, and every
\* system call and stream read returns
SpecFair == InitFair /\ [][Next]_vars /\ WF_vars(Next)

----------------------------------------------------------------------------
(* extractTar on arbitrary archives: the walk of one directory PUT, entry  *)
(* by entry, over every entry name of the bounded alphabet                 *)

\* the staging root HandlePut hands to extractDirectory
TarRoot == getTempPath(GetId(1), TargetOf(Root, PathDir))

\* a sibling of the staging root whose name has the name of the staging
\* root as a string prefix
SiblingPart == <<"d", ".">> \o GetId(1) \o TempSuffix \o <<"a">>

NameParts == {<<".">>, <<".", ".">>, <<"a">>, SiblingPart}

\* the components joined by separators
RECURSIVE JoinParts(_)
JoinParts(ps) ==
    IF ps = <<>> THEN <<>>
    ELSE IF Len(ps) = 1 THEN Head(ps)
    ELSE Head(ps) \o Sep \o JoinParts(Tail(ps))

\* relative and absolute entry names of up to MaxNameParts components
TarNames ==
    LET rel == UNION {{JoinParts(ps) : ps \in [1..n -> NameParts]} : n \in 0..MaxNameParts}
    IN  rel \cup {Sep \o x : x \in rel}

\* regular files, directories and the other types (symlinks, devices)
TarHeaders ==
    {Entry(name, typeflag, <<"b">>) : name \in TarNames, typeflag \in {"reg", "dir", "other"}}

\* the filesystem at the call of extractDirectory: os.MkdirAll of the
\* staging root has succeeded
StagedSite(site) == MkdirAll(site, TarRoot, "ok").fs

\* a site on which the sibling of the staging root exists
SiblingSite ==
    DeployedSite @@ (Dir(Clean(TarRoot)) \o Sep \o SiblingPart :> DirNode)

TarSites == {StagedSite(EmptySite), StagedSite(DeployedSite), StagedSite(SiblingSite)}

\* the directory PUT whose body is walked, at its extraction on the site f:
\* os.MkdirAll of the staging root is the step it has taken; walked is the
\* headers the reader has yielded (history, for the properties)
TarRequest(f) ==
    [Dispatch(f, NewRequest(Template("PUT", PathDir, "application/x-tar", TarBody(<<>>))), 1)
        EXCEPT !.pc = "extract", !.trace = <<"ok">>]
    @@ [walked |-> <<>>]

\* the walk after the entry hdr was extracted with result e
TarWalked(r, e, flt, hdr) ==
    /\ fs' = e.fs
    /\ req' = [req EXCEPT ![1] =
                 [(IF e.err.status /= 0 THEN Return(Failed(r), e.err) ELSE r)
                     EXCEPT !.trace = Append(@, flt), !.walked = Append(@, hdr)]]

\* tr.Next() yields a header: one turn of the loop of extractTar
TarNext ==
    /\ req[1].pc = "extract"
    /\ Len(req[1].trace) <= MaxTarEntries
    /\ \E hdr \in TarHeaders, flt \in {"ok", "fail", "partial"} :
          TarWalked(req[1], ExtractEntry(fs, TarRoot, hdr, flt), flt, hdr)
    /\ UNCHANGED <<lock, order, fs0>>

\* tr.Next() yields io.EOF and extractTar returns nil, or yields an error
TarEnd ==
    /\ req[1].pc = "extract"
    /\ \E eof \in BOOLEAN :
          req' = [req EXCEPT ![1] =
                    IF eof
                    THEN [@ EXCEPT !.pc = "stat", !.staged = Snapshot(fs, TarRoot)]
                    ELSE Return(Failed(@), ErrExtractTar("tar.Next"))]
    /\ UNCHANGED <<fs, lock, order, fs0>>

InitTar ==
    /\ fs \in TarSites
    /\ fs0 = fs
    /\ lock = 1
    /\ order = <<1>>
    /\ req = [i \in Reqs |-> IF i = 1 THEN TarRequest(fs)
                             ELSE NewRequest(Template("GET", PathFile, "", RawBody(<<>>)))]

NextTar == TarNext \/ TarEnd

SpecTar == InitTar /\ [][NextTar]_vars

----------------------------------------------------------------------------
(* the path functions on arbitrary identifiers and targets: HandlePut      *)
(* computing the temporary and the backup path of its transaction          *)

\* the identifier and the paths of the unit tests
TestedId == <<"t", "e", "s", "t", "e", "d">>

TestedDir == <<"/", "p", "a", "t", "h", "/", "t", "o", "/", "d", "i", "r", "/">>

TestedFile == <<"/", "p", "a", "t", "h", "/", "t", "o", "/", "f", "i", "l", "e">>

\* identifiers over characters of the URL-safe base64 alphabet
PathIds ==
    {TestedId} \cup UNION {[1..n -> {"1", "-"}] : n \in 1..MaxIdLen}

\* targets with and without a trailing separator, clean or not
PathTargets ==
    {TestedDir, TestedFile} \cup UNION {[1..n -> {"/", "a", "."}] : n \in 0..MaxTargetLen}

\* HandlePut(id, target, r) before its first path is computed
PathRequest(id, target) ==
    [ NewRequest(Template("PUT", <<>>, "", RawBody(<<>>)))
        EXCEPT !.id = id, !.target = target, !.pc = "mkdir" ]
    @@ [targetTemp |-> <<>>, targetBackup |-> <<>>]

\* targetTemp := getTempPath(id, target)
TempPath ==
    /\ req[1].targetTemp = <<>>
    /\ req' = [req EXCEPT ![1].targetTemp = getTempPath(req[1].id, req[1].target)]
    /\ UNCHANGED <<fs, lock, order, fs0>>

\* targetBackup := getBackupPath(id, target)
BackupPath ==
    /\ req[1].targetBackup = <<>>
    /\ req' = [req EXCEPT ![1].targetBackup = getBackupPath(req[1].id, req[1].target)]
    /\ UNCHANGED <<fs, lock, order, fs0>>

InitPath ==
    /\ fs = EmptySite
    /\ fs0 = fs
    /\ lock = 1
    /\ order = <<1>>
    /\ \E id \in PathIds, target \in PathTargets :
          req = [i \in Reqs |-> IF i = 1 THEN PathRequest(id, target)
                                ELSE NewRequest(Template("GET", PathFile, "", RawBody(<<>>)))]

NextPath == TempPath \/ BackupPath

SpecPath == InitPath /\ [][NextPath]_vars

----------------------------------------------------------------------------
(* directory uploads: one directory PUT over every archive of the bounded  *)
(* alphabet, tar or gzip, and over bodies and content types that are no    *)
(* archive, next to the DELETE requests                                    *)

\* components of the entry names of the uploaded archives
UploadParts == {<<"a">>, <<"b">>}

\* entry names that leave the staging root, or resolve to it
EscapingNames ==
    { <<".", ".">>,
      JoinParts(<<<<".", ".">>, <<"a">>>>),
      JoinParts(<<<<"a">>, <<".", ".">>>>) }

UploadNames ==
    EscapingNames
    \cup UNION {{JoinParts(ps) : ps \in [1..n -> UploadParts]} : n \in 1..MaxNameParts}

UploadHeaders ==
    {Entry(name, typeflag, IF typeflag = "reg" THEN <<"b">> ELSE <<>>) :
        name \in UploadNames, typeflag \in {"reg", "dir"}}

\* the archives of up to MaxTarEntries entries
Archives == UNION {[1..n -> UploadHeaders] : n \in 0..MaxTarEntries}

\* directory PUTs of a well-formed archive, of bytes that are no archive,
\* of an archive under a content type that names none, and of a tar and a
\* gzip archive under every content type extractDirectory names and under
\* some it does not name
DirUploads ==
    {Template("PUT", PathDir, "application/x-tar", TarBody(es)) : es \in Archives}
    \cup {Template("PUT", PathDir, "application/x-tar+gzip", TarGzBody(es)) : es \in Archives}
    \cup { Template("PUT", PathDir, "application/x-tar", RawBody(<<"x">>)),
           Template("PUT", PathDir, "application/x-tar+gzip", RawBody(<<"x">>)),
           Template("PUT", PathDir, "application/x-tar+gzip", RawBody(<<>>)),
           Template("PUT", PathDir, "text/plain", TarBody(<<>>)) }
    \cup { Template("PUT", PathDir, ct, body) :
             ct \in { "application/x-tar", "application/tar",
                      "application/x-tar+gzip", "application/tar+gzip",
                      "application/x-gzip", "application/gzip",
                      "", "application/x-tar; charset=utf-8", "APPLICATION/X-TAR",
                      "application/zip", "application/octet-stream" },
             body \in { TarBody(<<Entry(<<"a">>, "reg", <<"b">>)>>),
                        TarGzBody(<<Entry(<<"a">>, "reg", <<"b">>)>>) } }

\* the root of the site as a request path
PathRoot == <<"/">>

\* DELETE of a directory, of a file and of the site root
Deletes ==
    { Template("DELETE", PathDir, "", RawBody(<<>>)),
      Template("DELETE", PathFile, "", RawBody(<<>>)),
      Template("DELETE", PathRoot, "", RawBody(<<>>)) }

InitDir ==
    /\ fs \in InitialSites
    /\ fs0 = fs
    /\ lock = 0
    /\ order = <<>>
    /\ req \in [Reqs -> {NewRequest(t) : t \in DirUploads \cup Deletes}]
    /\ req[1].method = "PUT"
    /\ \A i \in Reqs \ {1} : req[i].method = "DELETE"

SpecDir == InitDir /\ [][Next]_vars

----------------------------------------------------------------------------
(* what the properties speak about *)

IsPut(r) == r.method = "PUT"

\* between lock.Lock() and the deferred lock.Unlock()
InFlight(r) == r.pc \notin {"waiting", "done"}

\* the handler has returned to ServeHTTP, its deferred calls done
Returned(r) == r.pc = "respond"

PutFailed(r) == IsPut(r) /\ Returned(r) /\ r.err.status /= 0

PutSucceeded(r) == IsPut(r) /\ Returned(r) /\ r.err.status = 0

\* the swap rename of the transaction has succeeded
SwapDone(r) == IsPut(r) /\ r.pc \in {"cleanup", "respond", "done"} /\ r.err.status = 0

TargetContent(r) == Snapshot(fs, r.target)

BackupContent(r) == Snapshot(fs, getBackupPath(r.id, r.target))

StagingContent(r) == Snapshot(fs, getTempPath(r.id, r.target))

----------------------------------------------------------------------------
(* failure atomicity, backup, swap *)

\* C1: a PUT that returns an error from any step, its rollback (if one ran)
\* having succeeded, leaves at the target path the content that was there
\* before the request, "absent" included.
C1_FailureAtomicity ==
    \A i \in Reqs :
        (PutFailed(req[i]) /\ ~req[i].rollbackErr)
            => TargetContent(req[i]) = req[i].old

\* the swap of a PUT onto an existing target failed and rollback restored it
C1_Witness ==
    \E i \in Reqs :
        /\ PutFailed(req[i]) /\ ~req[i].rollbackErr
        /\ "swap" \in req[i].failed
        /\ req[i].old /= {}
        /\ TargetContent(req[i]) = req[i].old

\* C2 (state part): while a PUT onto an existing target has not swapped, the
\* complete previous content is at the target path or at the backup path of
\* the transaction; when swap and rollback both failed, it is at the backup
\* path when the request returns.
PreviousContentKept ==
    \A i \in Reqs :
        LET r == req[i]
        IN  (IsPut(r) /\ InFlight(r) /\ r.old /= {} /\ ~SwapDone(r))
                => /\ TargetContent(r) = r.old \/ BackupContent(r) = r.old
                   /\ (Returned(r) /\ r.swapErr /\ r.rollbackErr)
                          => BackupContent(r) = r.old

\* C2 (step part): a step of the transaction that empties its backup path is
\* the cleanup after a successful swap, or puts the backup back at the target
BackupLeavesOnlyByRestore ==
    \A i \in Reqs :
        LET r == req[i]
        IN  (IsPut(r) /\ InFlight(r) /\ BackupContent(r) /= {}
                /\ Snapshot(fs', getBackupPath(r.id, r.target)) /= BackupContent(r))
                => \/ SwapDone(r)
                   \/ Snapshot(fs', r.target) = BackupContent(r)

\* C2: the previous content is never destroyed before the swap has
\* succeeded; the backup is deleted only after the swap succeeded and
\* otherwise leaves its path only by being renamed back onto the target.
C2_PreviousContentPreserved ==
    []PreviousContentKept /\ [][BackupLeavesOnlyByRestore]_vars

\* swap and rollback both failed and the request has returned with the
\* backup still in place
C2_Witness ==
    \E i \in Reqs :
        /\ PutFailed(req[i]) /\ req[i].swapErr /\ req[i].rollbackErr
        /\ req[i].old /= {}
        /\ BackupContent(req[i]) = req[i].old
        /\ TargetContent(req[i]) = {}

\* C3: during a PUT that replaces an existing target, the target path holds
\* the complete old or the complete new content at every instant, never
\* nothing and never partially written content.
C3_OldOrNew ==
    \A i \in Reqs :
        LET r == req[i]
        IN  (IsPut(r) /\ InFlight(r) /\ r.exists)
                => TargetContent(r) \in {r.old, r.staged}

\* what does hold of C3: the target path holds the complete old content,
\* the complete new content, or nothing (from the backup rename to the swap
\* rename or the restore); never a part of either.
OldNewOrAbsent ==
    \A i \in Reqs :
        LET r == req[i]
        IN  (IsPut(r) /\ InFlight(r) /\ r.old /= {})
                => /\ TargetContent(r) \in {r.old, r.staged, {}}
                   /\ ~SwapDone(r) => TargetContent(r) \in {r.old, {}}
                   /\ SwapDone(r) => TargetContent(r) = r.staged

\* the target has been renamed to the backup path and the swap has not run
C3_Witness ==
    \E i \in Reqs :
        /\ IsPut(req[i]) /\ req[i].pc = "swap" /\ req[i].exists
        /\ TargetContent(req[i]) = {}
        /\ BackupContent(req[i]) = req[i].old
        /\ req[i].staged /= {}

\* C4: after a failed swap on an existing target and a successful
\* rollback, the target holds its previous content and neither the staging
\* path nor the backup path exists.
C4_NoArtifactAfterRollback ==
    \A i \in Reqs :
        LET r == req[i]
        IN  (PutFailed(r) /\ r.swapErr /\ ~r.rollbackErr /\ r.exists)
                => /\ TargetContent(r) = r.old
                   /\ StagingContent(r) = {}
                   /\ BackupContent(r) = {}

\* the swap failed, rollback restored the target and removed the backup, and
\* the staged content is still at the staging path when the request returns
C4_Witness ==
    \E i \in Reqs :
        /\ PutFailed(req[i]) /\ req[i].swapErr /\ ~req[i].rollbackErr /\ req[i].exists
        /\ TargetContent(req[i]) = req[i].old
        /\ BackupContent(req[i]) = {}
        /\ req[i].staged /= {} /\ StagingContent(req[i]) = req[i].staged

\* C5: a backup exists only when the stat of the target found it: as long
\* as the stat has not found the target the backup path is empty, and when
\* it has, the swap starts with the previous content at the backup path and
\* nothing at the target path.
C5_BackupIffExisted ==
    \A i \in Reqs :
        LET r == req[i]
        IN  IsPut(r) /\ r.pc /= "waiting"
                => /\ ~r.exists => BackupContent(r) = {}
                   /\ r.deferCleanup => r.exists
                   /\ (r.exists /\ r.pc = "swap")
                          => /\ BackupContent(r) = r.old
                             /\ r.old /= {}
                             /\ TargetContent(r) = {}

\* a PUT on an existing target is at its swap with its backup made, after
\* another PUT created a new target without any backup
C5_Witness ==
    \E i, j \in Reqs :
        /\ IsPut(req[i]) /\ req[i].pc = "swap" /\ req[i].exists
        /\ BackupContent(req[i]) = req[i].old /\ req[i].old /= {}
        /\ IsPut(req[j]) /\ req[j].pc = "done" /\ ~req[j].exists
        /\ req[j].err.status = 0

----------------------------------------------------------------------------
(* single-file replace, staging cleanup *)

\* the tree that is one regular file of the given bytes
OneFile(bytes) == {<<<<>>, FileNode(bytes)>>}

\* C6 as stated: after a successful single-file PUT the target holds exactly
\* the bytes of the body, and neither the staging path nor the backup path
\* exists.
C6_FullReplaceNoArtifact ==
    \A i \in Reqs :
        LET r == req[i]
        IN  (PutSucceeded(r) /\ ~isDirectory(r))
                => /\ TargetContent(r) = OneFile(r.body.bytes)
                   /\ StagingContent(r) = {}
                   /\ BackupContent(r) = {}

\* C6: after a successful single-file PUT the target holds exactly the bytes
\* of the body (an empty file for an empty body) and nothing of the previous
\* content, the staging path does not exist, and the backup path does not
\* exist unless the deferred removal of the backup failed.
C6_FullReplace ==
    \A i \in Reqs :
        LET r == req[i]
        IN  (PutSucceeded(r) /\ ~isDirectory(r))
                => /\ TargetContent(r) = OneFile(r.body.bytes)
                   /\ StagingContent(r) = {}
                   /\ "cleanup" \notin r.failed => BackupContent(r) = {}

\* a single-file PUT with an empty body has replaced an existing target and
\* removed its backup
C6_Witness ==
    \E i \in Reqs :
        /\ PutSucceeded(req[i]) /\ ~isDirectory(req[i])
        /\ req[i].old /= {} /\ req[i].body.bytes = <<>>
        /\ TargetContent(req[i]) = OneFile(<<>>)
        /\ req[i].old /= OneFile(<<>>)
        /\ "cleanup" \notin req[i].failed
        /\ BackupContent(req[i]) = {}

\* C7: after a PUT returned an error from the extraction, from the
\* stat of the target or from the backup rename, its staging path does not
\* exist.
C7_StagingRemovedOnFailure ==
    \A i \in Reqs :
        LET r == req[i]
        IN  (PutFailed(r) /\ r.failed \cap {"extract", "stat", "backup"} /= {})
                => StagingContent(r) = {}

\* the extraction of a directory PUT failed and its staging directory is
\* still there when the request returns
C7_Witness ==
    \E i \in Reqs :
        /\ PutFailed(req[i]) /\ isDirectory(req[i])
        /\ "extract" \in req[i].failed
        /\ StagingContent(req[i]) /= {}

----------------------------------------------------------------------------
(* serialization of the requests *)

\* C8 (state part): at most one request is between lock.Lock() and
\* lock.Unlock(), and it is the holder of the lock
OneInFlight ==
    /\ \A i, j \in Reqs : (InFlight(req[i]) /\ InFlight(req[j])) => i = j
    /\ \A i \in Reqs : InFlight(req[i]) <=> lock = i

\* C8 (step part): a request starts only when no request is in flight, and
\* the filesystem changes only by a step of the request in flight, the
\* other requests standing still
OnlyHolderActs ==
    /\ \A j \in Reqs :
          (~InFlight(req[j]) /\ InFlight(req'[j]))
              => \A k \in Reqs : ~InFlight(req[k])
    /\ fs' /= fs =>
          /\ lock \in Reqs /\ lock' = lock
          /\ \A k \in Reqs \ {lock} : req'[k] = req[k]

\* C8: the requests handled by ServeHTTP exclude each other from lock
\* acquisition to lock release: no filesystem operation of one falls between
\* two of another, and a request that stays in the reading of its content
\* stream keeps every other request from starting.
C8_MutualExclusion ==
    []OneInFlight /\ [][OnlyHolderActs]_vars

\* a request has gone through its transaction and released the lock, the
\* next one is in the middle of its own
C8_Witness ==
    \E i, j \in Reqs :
        /\ i /= j
        /\ req[i].pc = "done" /\ req[i].trace /= <<>>
        /\ req[j].pc = "swap" /\ lock = j
        /\ fs /= fs0

\* the handler of request r run to its return, from filesystem f, with the
\* system call results of trace (successes once the trace is used up)
RECURSIVE RunHandler(_, _, _)

RunFrom(s, trace) == RunHandler(s.fs, s.r, trace)

RunHandler(f, r, trace) ==
    IF r.pc \notin HandlerPcs THEN f
    ELSE RunFrom(HandlerStep(f, r, IF trace = <<>> THEN "ok" ELSE Head(trace)),
                 IF trace = <<>> THEN <<>> ELSE Tail(trace))

\* request i served alone from filesystem f
ServeAlone(f, i) ==
    RunHandler(f, Dispatch(f, NewRequest(req[i]), i), req[i].trace)

\* the requests served one after the other in the order ord
RECURSIVE Serial(_, _)
Serial(f, ord) ==
    IF ord = <<>> THEN f ELSE Serial(ServeAlone(f, Head(ord)), Tail(ord))

Orders ==
    {o \in [1..NumRequests -> Reqs] : \A a, b \in 1..NumRequests : o[a] = o[b] => a = b}

AllDone == \A i \in Reqs : req[i].pc = "done"

\* C9: a request begins its staging only when every other request has
\* committed or rolled back and returned, and once all requests are done
\* the filesystem is the one that serving them one after the other, in some
\* order, produces.
C9_Serializable ==
    /\ \A i, j \in Reqs :
          (i /= j /\ req[j].pc \in HandlerPcs) => req[i].pc \in {"waiting", "done"}
    /\ AllDone => \E o \in Orders : fs = Serial(fs0, o)

\* two PUTs with different bodies to the same existing target are done, both
\* succeeded, and the target holds the content of the one served last
C9_Witness ==
    \E i, j \in Reqs :
        /\ i /= j /\ AllDone
        /\ IsPut(req[i]) /\ IsPut(req[j])
        /\ req[i].target = req[j].target /\ req[i].body /= req[j].body
        /\ req[i].err.status = 0 /\ req[j].err.status = 0
        /\ req[j].old /= {} /\ req[i].old = req[j].staged
        /\ TargetContent(req[i]) = req[i].staged
        /\ fs = Serial(fs0, order)

----------------------------------------------------------------------------
(* containment of the extraction *)

\* the filesystem objects that are not strictly inside the staging root
OutsideStaging(f) ==
    {<<q, f[q]>> : q \in {x \in DOMAIN f : ~StrictlyInside(Clean(TarRoot), x)}}

\* C10: whatever entries an archive holds (names with "." and ".."
\* components, absolute names, names that resolve to a sibling of which the
\* name of the staging root is a string prefix), every file or directory
\* that extractTar creates lies strictly inside the staging root: outside
\* it nothing is created and nothing is modified.
C10_PathContainment == OutsideStaging(fs) = OutsideStaging(fs0)

\* an entry was extracted inside the staging root and a later entry of the
\* same archive was rejected as a path traversal
C10_Witness ==
    /\ req[1].pc = "respond"
    /\ req[1].err.private.text = "security error: path traversal"
    /\ Len(req[1].trace) > 2
    /\ \E q \in DOMAIN fs : StrictlyInside(Clean(TarRoot), q) /\ fs[q].kind = "file"

----------------------------------------------------------------------------
(* input errors *)

\* no system call of the request failed
NoFault(r) == \A k \in 1..Len(r.trace) : r.trace[k] = "ok"

ClientClass(status) == status >= 400 /\ status < 500

\* the entry name, joined onto the staging root, resolves to a path that is
\* not strictly inside the staging root
Escapes(r, name) ==
    ~StrictlyInside(Clean(getTempPath(r.id, r.target)),
                    Clean(getTempPath(r.id, r.target) \o Sep \o name))

\* the entries of the archive of r before its first escaping entry
BeforeEscape(r) ==
    LET es == r.body.entries
        k == CHOOSE n \in 1..Len(es) :
                /\ Escapes(r, es[n].name)
                /\ \A m \in 1..(n - 1) : ~Escapes(r, es[m].name)
    IN  SubSeq(es, 1, k - 1)

\* the filesystem after the fresh staging root was made and the entries es
\* were extracted into it
StagedFrom(r, es) ==
    WalkTar(MkdirAll(r.before, getTempPath(r.id, r.target), "ok").fs,
            getTempPath(r.id, r.target), es, "ok")

\* a directory PUT of a tar or gzip archive that holds an escaping entry,
\* the entries before it extractable, has returned without any system
\* call failing
TraversalCase(r) ==
    /\ IsPut(r) /\ isDirectory(r) /\ Returned(r) /\ NoFault(r)
    /\ r.ctype \in TarTypes \cup TarGzTypes
    /\ \E n \in 1..Len(r.body.entries) : Escapes(r, r.body.entries[n].name)
    /\ StagedFrom(r, BeforeEscape(r)).err.status = 0

\* the extraction stopped at the escaping entry: the PUT failed and the
\* staging root holds what the entries before it made, nothing of a later one
TraversalAborts ==
    \A i \in Reqs :
        TraversalCase(req[i])
            => /\ req[i].err.status /= 0
               /\ req[i].failed = {"extract"}
               /\ fs = StagedFrom(req[i], BeforeEscape(req[i])).fs

\* C11: a tar entry whose name resolves outside the staging root aborts the
\* extraction at that entry, and the PUT fails with a client-class (4xx)
\* error.
C11_TraversalClientError ==
    \A i \in Reqs :
        TraversalCase(req[i])
            => /\ ClientClass(req[i].err.status)
               /\ fs = StagedFrom(req[i], BeforeEscape(req[i])).fs

\* an archive whose second entry escapes was rejected at it, after its first
\* entry was extracted, with a server-class status
C11_Witness ==
    \E i \in Reqs :
        /\ TraversalCase(req[i])
        /\ Len(BeforeEscape(req[i])) = 1
        /\ Len(req[i].body.entries) = 2
        /\ StagingContent(req[i]) /= {} /\ StagingContent(req[i]) /= {<<<<>>, DirNode>>}
        /\ req[i].err.private.text = "security error: path traversal"
        /\ req[i].err.status = StatusInternalServerError

\* a PUT against the fresh empty root has returned, no system call failing
FreshRootPut(r) ==
    /\ IsPut(r) /\ Returned(r) /\ NoFault(r)
    /\ r.before = EmptySite
    /\ r.ctype \in {"application/octet-stream", "application/x-tar", "application/x-tar+gzip"}

\* C12: against a fresh empty root, a PUT of any body under the content
\* types application/octet-stream, application/x-tar or
\* application/x-tar+gzip succeeds or fails with a status below 500: a
\* malformed tar stream and a body that is not gzip are client errors.
C12_InputErrorsClientClass ==
    \A i \in Reqs :
        FreshRootPut(req[i]) => req[i].err.status < StatusInternalServerError

\* a body that is not gzip, sent as application/x-tar+gzip to the fresh
\* empty root, was answered with a server-class status
C12_Witness ==
    \E i \in Reqs :
        /\ FreshRootPut(req[i])
        /\ req[i].ctype = "application/x-tar+gzip" /\ req[i].body.fmt = "raw"
        /\ req[i].err.private.text = "failed to wrap body in gzip reader"
        /\ req[i].err.status = StatusInternalServerError

\* a directory PUT under a content type that names no archive format has
\* returned, no system call failing
BadTypeCase(r) ==
    /\ IsPut(r) /\ isDirectory(r) /\ Returned(r) /\ NoFault(r)
    /\ r.ctype \notin TarTypes \cup TarGzTypes

\* C13: a directory PUT with an unrecognized content type fails with a
\* client-class error and leaves the filesystem as it was before the
\* request: no staging directory, no parent directory, target untouched.
C13_BadTypeNoSideEffect ==
    \A i \in Reqs :
        BadTypeCase(req[i])
            => /\ ClientClass(req[i].err.status)
               /\ fs = req[i].before

\* what does hold of C13: the error is the 400 of extractDirectory and the
\* target is untouched
BadTypeRejected ==
    \A i \in Reqs :
        BadTypeCase(req[i])
            => /\ req[i].err.status = StatusBadRequest
               /\ TargetContent(req[i]) = req[i].old

\* the PUT was rejected with 400 and its empty staging directory is on the
\* filesystem, which it was not before the request
C13_Witness ==
    \E i \in Reqs :
        /\ BadTypeCase(req[i])
        /\ req[i].err.status = StatusBadRequest
        /\ Snapshot(req[i].before, getTempPath(req[i].id, req[i].target)) = {}
        /\ StagingContent(req[i]) = {<<<<>>, DirNode>>}

----------------------------------------------------------------------------
(* the response *)

\* a PUT or DELETE was answered with an error
AnsweredError(r) ==
    r.pc = "done" /\ r.method \in {"PUT", "DELETE"} /\ r.response.code /= 0

\* the response body is empty
EmptyBody(resp) == resp.text = "" /\ resp.paths = <<>> /\ resp.wraps = <<>>

\* C14: for an error of status 500 or more, the response body holds no part
\* of the private message (its text, the paths formatted into it, the errors
\* it wraps); a message is written only for a status below 500, and it is
\* the public message.
C14_PrivateNotInResponse ==
    \A i \in Reqs :
        LET r == req[i]
        IN  AnsweredError(r)
                => /\ r.response.code >= StatusInternalServerError => EmptyBody(r.response)
                   /\ r.response.code < StatusInternalServerError
                          => /\ r.response.text = r.err.public
                             /\ r.response.paths = <<>> /\ r.response.wraps = <<>>

\* a 500 was answered with the private message in the body, the paths of the
\* transaction in it
C14_Witness ==
    \E i \in Reqs :
        /\ AnsweredError(req[i])
        /\ req[i].response.code = StatusInternalServerError
        /\ req[i].response.text = req[i].err.private.text
        /\ req[i].response.text /= ""
        /\ \E k \in 1..Len(req[i].response.paths) :
              req[i].response.paths[k] = getTempPath(req[i].id, req[i].target)

----------------------------------------------------------------------------
(* directory replace *)

\* the tree an archive describes, as paths relative to its root: every
\* entry at its name, the directories above it, a later entry of a name in
\* the place of an earlier one
RECURSIVE ArchiveTree(_, _)
ArchiveTree(es, tree) ==
    IF es = <<>> THEN tree
    ELSE LET e == Head(es)
             k == Clean(Sep \o e.name)
             above == PathPrefixes(k) \ {Sep, k}
             node == IF e.typeflag = "dir" THEN DirNode ELSE FileNode(e.data)
         IN  ArchiveTree(Tail(es),
                 [q \in DOMAIN tree \cup above \cup {k} |->
                     IF q = k THEN node
                     ELSE IF q \in DOMAIN tree THEN tree[q]
                     ELSE DirNode])

\* the content of a directory that holds the tree of the archive
TreeContent(es) ==
    LET tree == ArchiveTree(es, <<>>)
    IN  {<<<<>>, DirNode>>} \cup {<<q, tree[q]>> : q \in DOMAIN tree}

\* C15: after a successful directory PUT of a tar or gzip archive of
\* directory and regular-file entries, the target tree is exactly the tree
\* of the archive: its directories (the empty ones empty), its files with
\* the bytes of their entries, and nothing of the previous tree.
C15_DirectoryReplace ==
    \A i \in Reqs :
        LET r == req[i]
        IN  (PutSucceeded(r) /\ isDirectory(r))
                => TargetContent(r) = TreeContent(r.body.entries)

\* a gzip archive of a file a/b and an empty directory b has replaced the
\* deployed directory: the tree is in place and the old file is gone
C15_Witness ==
    \E i \in Reqs :
        LET r == req[i]
        IN  /\ PutSucceeded(r) /\ isDirectory(r)
            /\ r.ctype \in TarGzTypes
            /\ r.old = Snapshot(DeployedSite, r.target)
            /\ Len(r.body.entries) = 2
            /\ TargetContent(r) =
                  { <<<<>>, DirNode>>, <<<<"/", "a">>, DirNode>>,
                    <<<<"/", "a", "/", "b">>, FileNode(<<"b">>)>>,
                    <<<<"/", "b">>, DirNode>> }

----------------------------------------------------------------------------
(* idempotence *)

\* request j is the single-file PUT of request i performed again: the same
\* target and body, served after i, both reporting success
Twice(i, j) ==
    /\ i /= j /\ order = <<i, j>>
    /\ IsPut(req[i]) /\ ~isDirectory(req[i])
    /\ req[i].pc = "done" /\ req[i].err.status = 0
    /\ PutSucceeded(req[j])
    /\ req[j].target = req[i].target /\ req[j].body = req[i].body

\* C16 as stated: the same single-file PUT performed twice leaves the
\* filesystem as performing it once did, the target with the uploaded
\* content, and no backup or staging path of either transaction.
C16_IdempotentNoArtifact ==
    \A i, j \in Reqs :
        Twice(i, j)
            => /\ fs = req[j].before
               /\ TargetContent(req[j]) = OneFile(req[j].body.bytes)
               /\ \A k \in {i, j} :
                      StagingContent(req[k]) = {} /\ BackupContent(req[k]) = {}

\* C16: the same single-file PUT performed twice leaves the target with
\* the uploaded content and no staging path of either transaction; the
\* backup path of a transaction exists only if its deferred removal failed,
\* and when the removal of the second did not fail the filesystem is as the
\* first PUT left it.
C16_Idempotent ==
    \A i, j \in Reqs :
        Twice(i, j)
            => /\ TargetContent(req[j]) = OneFile(req[j].body.bytes)
               /\ \A k \in {i, j} :
                      /\ StagingContent(req[k]) = {}
                      /\ "cleanup" \notin req[k].failed => BackupContent(req[k]) = {}
               /\ "cleanup" \notin req[j].failed => fs = req[j].before

\* the same file was uploaded twice with no failing call: the second PUT
\* backed up the file of the first and removed the backup
C16_Witness ==
    \E i, j \in Reqs :
        /\ Twice(i, j) /\ NoFault(req[i]) /\ NoFault(req[j])
        /\ req[j].old = OneFile(req[i].body.bytes)
        /\ req[j].exists
        /\ fs = req[j].before /\ fs /= req[i].before
        /\ BackupContent(req[j]) = {}

----------------------------------------------------------------------------
(* empty archive *)

EmptyDir == {<<<<>>, DirNode>>}

\* a directory PUT with an empty body of a tar content type has returned,
\* none of its system calls having been made to fail
EmptyArchivePut(r) ==
    /\ IsPut(r) /\ isDirectory(r) /\ Returned(r) /\ NoFault(r)
    /\ r.ctype \in TarTypes /\ r.body = RawBody(<<>>)

\* a regular file is at the path of the directory target, or above it
FileInTheWay(r) == Resolve(r.before, r.target) = "notdir"

FileInTheWayRefused ==
    \E i \in Reqs :
        /\ EmptyArchivePut(req[i]) /\ FileInTheWay(req[i])
        /\ req[i].err.status = StatusInternalServerError

----------------------------------------------------------------------------
(* rollback without a backup *)

\* the backup path of the transaction does not exist
NoBackup(f, r) == Resolve(f, getBackupPath(r.id, r.target)) = "notexist"

\* rollback(id, target) called on filesystem f, its stat answering
RollbackAt(f, r) ==
    rollback(f, [r EXCEPT !.pc = "rb_stat", !.rollbackErr = FALSE], "ok")

\* rollback on any filesystem the program reaches, for any transaction
\* whose backup path is not there: no error, nothing changed, no further
\* step of rollback
RollbackNoBackupNoop ==
    \A i \in Reqs :
        (IsPut(req[i]) /\ NoBackup(fs, req[i]))
            => /\ RollbackAt(fs, req[i]).fs = fs
               /\ ~RollbackAt(fs, req[i]).r.rollbackErr
               /\ RollbackAt(fs, req[i]).r.pc \notin RollbackPcs

\* the rollback of a failed swap, its stat answering, the backup absent
RollbackRunsWithoutBackup ==
    \A i \in Reqs :
        (/\ req[i].pc = "rb_stat" /\ NoBackup(fs, req[i])
         /\ req'[i].trace = Append(req[i].trace, "ok"))
            => /\ fs' = fs
               /\ ~req'[i].rollbackErr
               /\ req'[i].pc \notin RollbackPcs
               /\ req'[i].failed = req[i].failed

\* C18: when the backup path of the transaction does not exist, rollback
\* returns no error and leaves the whole filesystem unchanged; it does not
\* remove what is at the target path.
C18_RollbackNoBackup ==
    []RollbackNoBackupNoop /\ [][RollbackRunsWithoutBackup]_vars

\* the swap of a PUT to an absent target failed, rollback found no backup
\* and returned nil: the request carries the swap error alone
C18_Witness ==
    \E i \in Reqs :
        /\ PutFailed(req[i]) /\ req[i].swapErr /\ ~req[i].rollbackErr
        /\ ~req[i].exists
        /\ "rb_stat" \notin req[i].failed
        /\ NoBackup(fs, req[i])
        /\ req[i].err = ErrSwap(req[i])
        /\ \E j \in Reqs :
              /\ TargetContent(req[j]) /= {}
              /\ NoBackup(fs, req[j]) /\ IsPut(req[j])

----------------------------------------------------------------------------
(* DELETE *)

IsDelete(r) == r.method = "DELETE"

\* HandleDelete has returned to ServeHTTP
DeleteReturned(r) == IsDelete(r) /\ Returned(r)

\* something was at the target when the request was dispatched
TargetExisted(r) == Resolve(r.before, r.target) = "ok"

\* C19: a DELETE of an existing target (a file, a directory tree, the site
\* root), no system call failing, reports success; after a DELETE that
\* reports success the target path does not exist and everything outside
\* the subtree of the target is as it was.
C19_DeleteRemovesTarget ==
    \A i \in Reqs :
        LET r == req[i]
        IN  /\ (DeleteReturned(r) /\ TargetExisted(r) /\ NoFault(r))
                  => r.err.status = 0
            /\ (DeleteReturned(r) /\ r.err.status = 0)
                  => /\ TargetExisted(r)
                     /\ TargetContent(r) = {}
                     /\ Resolve(fs, r.target) = "notexist"
                     /\ fs = Without(r.before, Clean(r.target))

\* the deployed directory tree was deleted and the file beside it is still
\* there
C19_Witness ==
    \E i \in Reqs :
        /\ DeleteReturned(req[i]) /\ req[i].err.status = 0
        /\ req[i].path = PathDir
        /\ req[i].before = DeployedSite
        /\ Cardinality(req[i].old) = 2
        /\ TargetContent(req[i]) = {}
        /\ Snapshot(fs, Root \o PathFile) = OneFile(<<"o">>)

\* a single file was deleted
DeleteFileDone ==
    \E i \in Reqs :
        /\ DeleteReturned(req[i]) /\ req[i].err.status = 0
        /\ req[i].path = PathFile /\ req[i].old = OneFile(<<"o">>)
        /\ Snapshot(fs, Root \o PathDir) = Snapshot(req[i].before, Root \o PathDir)
        /\ Snapshot(fs, Root \o PathDir) /= {}

\* the site root itself was deleted
DeleteRootDone ==
    \E i \in Reqs :
        /\ DeleteReturned(req[i]) /\ req[i].err.status = 0
        /\ req[i].path = PathRoot /\ req[i].old /= {}
        /\ DOMAIN fs = {Sep}

\* the os.Stat of HandleDelete answered that nothing is at the target
StatNotExist(r) ==
    Resolve(r.before, r.target) = "notexist" /\ Head(r.trace) = "ok"

\* the os.Stat of HandleDelete failed otherwise: the call itself, or a
\* regular file on the way to the target
StatOtherError(r) ==
    \/ Head(r.trace) = "fail"
    \/ Resolve(r.before, r.target) = "notdir"

\* C20: a DELETE of a target that does not exist returns 404 with the
\* public message "Not Found." and leaves the filesystem unchanged; a stat
\* failure other than not-exist returns 500 and leaves the filesystem
\* unchanged.
C20_DeleteNotFound ==
    \A i \in Reqs :
        LET r == req[i]
        IN  /\ (DeleteReturned(r) /\ StatNotExist(r))
                  => /\ r.err.status = StatusNotFound
                     /\ r.err.public = "Not Found."
                     /\ fs = r.before
            /\ (DeleteReturned(r) /\ StatOtherError(r))
                  => /\ r.err.status = StatusInternalServerError
                     /\ fs = r.before

\* one DELETE found nothing at its target and was answered 404, another
\* could not stat its target and returned 500: the site is as it began
C20_Witness ==
    \E i, j \in Reqs :
        /\ IsDelete(req[i]) /\ req[i].pc = "done" /\ StatNotExist(req[i])
        /\ req[i].err.status = StatusNotFound
        /\ req[i].response.code = StatusNotFound
        /\ DeleteReturned(req[j]) /\ StatOtherError(req[j])
        /\ req[j].err.status = StatusInternalServerError
        /\ fs = fs0

\* the stat of a DELETE met a regular file where the directory should be
DeleteFileInTheWay ==
    \E i \in Reqs :
        /\ DeleteReturned(req[i]) /\ req[i].trace = <<"ok">>
        /\ Resolve(req[i].before, req[i].target) = "notdir"
        /\ req[i].err.status = StatusInternalServerError

----------------------------------------------------------------------------
(* methods *)

Allowed(r) == r.method \in {"PUT", "DELETE"}

\* what fmt.Sprintf("Unauthorized method: %s\n", method) writes
UnauthorizedBody(method) ==
    [code |-> StatusMethodNotAllowed, text |-> "Unauthorized method: %s\n",
     paths |-> <<>>, wraps |-> <<method>>]

\* C21: a request whose method is neither PUT nor DELETE is answered with
\* status 405 and the body "Unauthorized method: <METHOD>\n", and the
\* filesystem is left as it was when the request took the lock.
C21_MethodNotAllowed ==
    \A i \in Reqs :
        LET r == req[i]
        IN  /\ (~Allowed(r) /\ InFlight(r))
                  => /\ Returned(r)
                     /\ r.err.status = StatusMethodNotAllowed
                     /\ r.trace = <<>>
                     /\ fs = r.before
            /\ (~Allowed(r) /\ r.pc = "done")
                  => /\ r.response = UnauthorizedBody(r.method)
                     /\ r.err.status = StatusMethodNotAllowed

\* a GET and a POST with an archive for a deployed directory were both
\* answered 405, each with its own method in the body, on an untouched site
C21_Witness ==
    \E i, j \in Reqs :
        /\ req[i].method = "GET" /\ req[j].method = "POST"
        /\ req[i].pc = "done" /\ req[j].pc = "done"
        /\ req[i].response = UnauthorizedBody("GET")
        /\ req[j].response = UnauthorizedBody("POST")
        /\ req[j].old /= {}
        /\ fs = DeployedSite

----------------------------------------------------------------------------
(* the backup and the temporary path *)

\* target + infix + id + suffix, the trailing separator of a directory
\* target moved to the end
Suffixed(id, target, infix, suffix) ==
    IF target /= <<>> /\ target[Len(target)] = "/"
    THEN SubSeq(target, 1, Len(target) - 1) \o infix \o id \o suffix \o <<"/">>
    ELSE target \o infix \o id \o suffix

\* C22: for every id and target, getBackupPath(id, target) is
\* target + "." + id + "-backup" when the target does not end in "/", and
\* the target without its trailing "/" + "." + id + "-backup/" when it
\* does; ("tested", "/path/to/dir/") gives "/path/to/dir.tested-backup/".
C22_BackupPath ==
    LET r == req[1]
    IN  r.targetBackup /= <<>>
            => /\ r.targetBackup = Suffixed(r.id, r.target, <<".">>, <<"-", "b", "a", "c", "k", "u", "p">>)
               /\ (r.id = TestedId /\ r.target = TestedDir)
                     => r.targetBackup = <<"/", "p", "a", "t", "h", "/", "t", "o", "/", "d", "i", "r", ".", "t", "e", "s", "t", "e", "d", "-", "b", "a", "c", "k", "u", "p", "/">>
               /\ (r.id = TestedId /\ r.target = TestedFile)
                     => r.targetBackup = <<"/", "p", "a", "t", "h", "/", "t", "o", "/", "f", "i", "l", "e", ".", "t", "e", "s", "t", "e", "d", "-", "b", "a", "c", "k", "u", "p">>

\* the backup path of the directory of the unit test was computed
C22_Witness ==
    /\ req[1].id = TestedId /\ req[1].target = TestedDir
    /\ req[1].targetBackup = <<"/", "p", "a", "t", "h", "/", "t", "o", "/", "d", "i", "r", ".", "t", "e", "s", "t", "e", "d", "-", "b", "a", "c", "k", "u", "p", "/">>

C24_TempPathDash ==
    LET r == req[1]
    IN  r.targetTemp /= <<>>
            => /\ r.targetTemp = Suffixed(r.id, r.target, <<"-">>, <<"-", "t", "m", "p">>)
               /\ (r.id = TestedId /\ r.target = TestedDir)
                     => r.targetTemp = <<"/", "p", "a", "t", "h", "/", "t", "o", "/", "d", "i", "r", "-", "t", "e", "s", "t", "e", "d", "-", "t", "m", "p", "/">>
               /\ (r.id = TestedId /\ r.target = TestedFile)
                     => r.targetTemp = <<"/", "p", "a", "t", "h", "/", "t", "o", "/", "f", "i", "l", "e", "-", "t", "e", "s", "t", "e", "d", "-", "t", "m", "p">>

\* the temporary path of the directory of the unit test was computed, with
\* "." before the identifier
C24_Witness ==
    /\ req[1].id = TestedId /\ req[1].target = TestedDir
    /\ req[1].targetTemp = <<"/", "p", "a", "t", "h", "/", "t", "o", "/", "d", "i", "r", ".", "t", "e", "s", "t", "e", "d", "-", "t", "m", "p", "/">>

----------------------------------------------------------------------------
(* step ordering of the PUT *)

\* the steps of HandlePut up to the backup rename
StagingPcs == {"mkdir", "extract", "stat"}

BeforeSwapPcs == StagingPcs \cup {"backup"}

\* a step of a PUT that is still staging, or whose staging or stat fails,
\* leaves what is at the target path as it is
TargetUntouchedWhileStaging ==
    \A i \in Reqs :
        (IsPut(req[i]) /\ req[i].pc \in StagingPcs /\ req'[i] /= req[i])
            => /\ Snapshot(fs', req[i].target) = Snapshot(fs, req[i].target)
               /\ req'[i].pc \in StagingPcs \cup {"backup", "swap", "respond"}
               /\ req'[i].pc = "stat" => req[i].pc = "extract" /\ req'[i].err.status = 0

\* the swap rename is reached with the target, when it existed, already at
\* the backup path
BackupPrecedesSwap ==
    \A i \in Reqs :
        (IsPut(req[i]) /\ req[i].pc = "swap" /\ req[i].exists)
            => /\ BackupContent(req[i]) = req[i].old
               /\ TargetContent(req[i]) = {}
               /\ req[i].deferCleanup

\* rollback runs only after the swap rename failed, and never after a
\* failure of the staging, the stat or the backup rename
RollbackOnlyAfterSwap ==
    \A i \in Reqs :
        /\ req[i].pc \in RollbackPcs
              => req[i].swapErr /\ req[i].failed \cap BeforeSwapPcs = {}
        /\ req[i].failed \cap BeforeSwapPcs /= {}
              => /\ req[i].pc \in {"cleanup", "respond", "done"}
                 /\ ~req[i].swapErr /\ ~req[i].rollbackErr
                 /\ req[i].failed \cap RollbackPcs = {}

\* rollback is entered from the swap step alone
RollbackEnteredFromSwap ==
    \A i \in Reqs :
        (req'[i].pc \in RollbackPcs /\ req[i].pc \notin RollbackPcs)
            => req[i].pc = "swap" /\ ~req[i].swapErr /\ req'[i].swapErr

\* C25: no step of a PUT touches the target path before the extraction
\* into staging has succeeded; the backup rename, when the target exists,
\* precedes the swap rename; rollback is invoked only after a failed swap
\* rename, never after a staging, stat or backup-rename failure.
C25_StepOrdering ==
    /\ [](BackupPrecedesSwap /\ RollbackOnlyAfterSwap)
    /\ [][TargetUntouchedWhileStaging /\ RollbackEnteredFromSwap]_vars

\* one PUT failed at its backup rename and returned without a rollback,
\* another is in rollback after its swap failed, its target at the backup
\* path
C25_Witness ==
    \E i, j \in Reqs :
        /\ IsPut(req[i]) /\ req[i].pc = "done" /\ "backup" \in req[i].failed
        /\ ~req[i].swapErr
        /\ IsPut(req[j]) /\ req[j].pc = "rb_stat" /\ req[j].swapErr /\ req[j].exists
        /\ BackupContent(req[j]) = req[j].old /\ req[j].old /= {}

----------------------------------------------------------------------------
(* the swap across devices *)

\* the swap rename of the PUT failed with a cross-device-link error, and
\* no other call of the request failed
CrossDeviceSwap(r) ==
    /\ IsPut(r) /\ r.swapErr
    /\ \E k \in 1..Len(r.trace) :
          r.trace[k] = "xdev" /\ \A m \in 1..Len(r.trace) : m /= k => r.trace[m] = "ok"

\* C26: when the swap rename fails with a cross-device-link error the
\* transaction does not roll back but copies the staging tree onto the
\* target and removes staging, ending in success with the new content
\* live; rollback is triggered only if the copy fails.
C26_CrossDeviceFallback ==
    \A i \in Reqs :
        LET r == req[i]
        IN  /\ (CrossDeviceSwap(r) /\ InFlight(r)) => r.pc \notin RollbackPcs
            /\ (CrossDeviceSwap(r) /\ Returned(r))
                  => /\ r.err.status = 0
                     /\ TargetContent(r) = r.staged
                     /\ StagingContent(r) = {}

\* the swap of a PUT over an existing target failed across devices: the
\* rollback restored the old content and the request returned the swap
\* error, the staged content still at the staging path
C26_Witness ==
    \E i \in Reqs :
        LET r == req[i]
        IN  /\ CrossDeviceSwap(r) /\ Returned(r)
            /\ r.err = ErrSwap(r)
            /\ r.old /= {} /\ TargetContent(r) = r.old
            /\ StagingContent(r) = r.staged /\ r.staged /= {}

\* a swap rename that fails, for whatever reason, is followed by rollback
\* at once
SwapFailureRollsBack ==
    \A i \in Reqs :
        (req[i].pc = "swap" /\ req'[i].pc /= "swap"
            /\ req'[i].trace[Len(req'[i].trace)] /= "ok")
            => req'[i].pc = "rb_stat" /\ fs' = fs

AnySwapFailureRollsBack == [][SwapFailureRollsBack]_vars

----------------------------------------------------------------------------
(* the error of a failed rollback *)

\* the error rollback returns for the step of it that failed
RollbackCause(r) ==
    IF "rb_stat" \in r.failed THEN "failed to stat backup during rollback"
    ELSE IF "rb_remove" \in r.failed
    THEN "could not cleanup target ddirectory during rollback"
    ELSE "could not restore backup during rollback"

\* the errors formatted into the message
Wrapped(e) == {e.private.wraps[k] : k \in 1..Len(e.private.wraps)}

\* the paths formatted into the message
PathsOf(e) == {e.private.paths[k] : k \in 1..Len(e.private.paths)}

SwapAndRollbackFailed(r) == PutFailed(r) /\ r.swapErr /\ r.rollbackErr

\* the error of a failed swap whose rollback failed is of the server
\* class, differs from the error of a swap whose rollback succeeded, and
\* names the staging path and the target
RollbackErrorDistinct ==
    \A i \in Reqs :
        LET r == req[i]
        IN  SwapAndRollbackFailed(r)
                => /\ r.err.status >= StatusInternalServerError
                   /\ r.err /= ErrSwap(r)
                   /\ r.err.private.text /= ErrSwap(r).private.text
                   /\ {getTempPath(r.id, r.target), r.target} \subseteq PathsOf(r.err)

\* C27: when the swap fails and the rollback fails too, the returned error
\* is of the server class, is distinguishable from the error of a swap
\* whose rollback succeeded, and carries the cause of the rollback failure
\* together with the target and staging paths.
C27_RollbackCauseCarried ==
    \A i \in Reqs :
        LET r == req[i]
        IN  SwapAndRollbackFailed(r)
                => /\ r.err.status >= StatusInternalServerError
                   /\ r.err /= ErrSwap(r)
                   /\ {getTempPath(r.id, r.target), r.target} \subseteq PathsOf(r.err)
                   /\ RollbackCause(r) \in Wrapped(r.err)

\* the swap failed and the restore rename of rollback failed: the error
\* names the swap failure twice and the rollback failure not at all
C27_Witness ==
    \E i \in Reqs :
        LET r == req[i]
        IN  /\ SwapAndRollbackFailed(r) /\ "rb_rename" \in r.failed
            /\ r.err = ErrSwapAndRollback(r)
            /\ Wrapped(r.err) = {"failed to swap temporary directoy with target"}
            /\ Len(r.err.private.wraps) = 2

----------------------------------------------------------------------------
(* commit with a failing cleanup *)

\* the swap rename of the PUT succeeded and the deferred removal of the
\* backup failed
CleanupFailed(r) ==
    IsPut(r) /\ r.pc \in {"respond", "done"} /\ ~r.swapErr /\ "cleanup" \in r.failed

\* C28: if the swap rename succeeded and the removal of the backup then
\* fails, the PUT still reports success, the target holds the new content,
\* no rollback is performed and the stale backup stays at the backup path.
C28_CleanupNonFatal ==
    \A i \in Reqs :
        LET r == req[i]
        IN  /\ CleanupFailed(r)
                  => /\ r.err.status = 0
                     /\ r.failed = {"cleanup"}
                     /\ ~r.rollbackErr
                     /\ r.pc = "done" => r.response = NoResponse
            /\ (CleanupFailed(r) /\ Returned(r))
                  => /\ TargetContent(r) = r.staged
                     /\ BackupContent(r) /= {}
                     /\ BackupContent(r) \subseteq r.old

\* a PUT replaced the deployed file, the removal of its backup failed: the
\* request succeeded, the new content is live and the old file is still at
\* the backup path
C28_Witness ==
    \E i \in Reqs :
        LET r == req[i]
        IN  /\ CleanupFailed(r) /\ Returned(r)
            /\ r.err.status = 0
            /\ r.old = OneFile(<<"o">>)
            /\ BackupContent(r) = r.old
            /\ TargetContent(r) = OneFile(r.body.bytes)
            /\ TargetContent(r) /= r.old

----------------------------------------------------------------------------
(* rollback and the backup *)

BackupAt(f, r) == Snapshot(f, getBackupPath(r.id, r.target))

\* the steps of rollback: the stat changes nothing and lets the removal of
\* the target run only when the backup is there; the removal leaves the
\* backup as it is and, when it fails, ends rollback without the restore;
\* a restore that succeeds puts the content of the backup at the target
\* and nothing is left at the backup path
RollbackStepsKeepBackup ==
    \A i \in Reqs :
        LET r == req[i]
            n == req'[i]
        IN  /\ (r.pc = "rb_stat" /\ n.pc /= "rb_stat")
                  => /\ fs' = fs
                     /\ n.pc = "rb_remove" => Resolve(fs, getBackupPath(r.id, r.target)) = "ok"
            /\ (r.pc = "rb_remove" /\ n.pc /= "rb_remove")
                  => /\ BackupAt(fs', r) = BackupAt(fs, r)
                     /\ IF RemoveAll(fs, r.target, n.trace[Len(n.trace)]).err
                        THEN n.pc \notin RollbackPcs /\ n.rollbackErr
                        ELSE n.pc = "rb_rename" /\ Snapshot(fs', r.target) = {}
            /\ (r.pc = "rb_rename" /\ n.pc /= "rb_rename")
                  => IF n.rollbackErr THEN fs' = fs
                     ELSE /\ Snapshot(fs', r.target) = BackupAt(fs, r)
                          /\ BackupAt(fs', r) = {}

\* in rollback, and after a rollback that failed, the previous content of
\* the target is at the backup path; after a rollback that succeeded it
\* is at the target and the backup path does not exist
RollbackKeepsContent ==
    \A i \in Reqs :
        LET r == req[i]
        IN  (IsPut(r) /\ r.swapErr /\ r.exists /\ InFlight(r))
                => IF r.pc \in RollbackPcs \/ r.rollbackErr
                   THEN BackupContent(r) = r.old /\ r.old /= {}
                   ELSE TargetContent(r) = r.old /\ BackupContent(r) = {}

\* C29: rollback removes what is at the target path only after the stat of
\* the backup succeeded; if removing the target fails, the backup is left
\* intact at the backup path and the restore rename is not attempted; if
\* the restore rename succeeds, the target holds the backed-up content and
\* the backup path no longer exists.
C29_RollbackKeepsBackup ==
    []RollbackKeepsContent /\ [][RollbackStepsKeepBackup]_vars

\* the removal of the target failed in a rollback: the request returned
\* with the rollback error, the old content intact at the backup path
C29_Witness ==
    \E i \in Reqs :
        LET r == req[i]
        IN  /\ PutFailed(r) /\ r.swapErr /\ r.rollbackErr
            /\ r.failed = {"swap", "rb_remove"}
            /\ r.old /= {} /\ BackupContent(r) = r.old
            /\ TargetContent(r) = {}

\* a rollback restored the backup
RollbackRestored ==
    \E i \in Reqs :
        LET r == req[i]
        IN  /\ PutFailed(r) /\ r.swapErr /\ ~r.rollbackErr /\ r.exists
            /\ r.old /= {} /\ TargetContent(r) = r.old /\ BackupContent(r) = {}

----------------------------------------------------------------------------
(* the lock is released *)

\* the lock is held exactly while a request is between Lock and Unlock,
\* and by that request
LockHeldWhileServing ==
    /\ lock = 0 <=> \A i \in Reqs : ~InFlight(req[i])
    /\ \A i \in Reqs : InFlight(req[i]) => lock = i

\* every return of ServeHTTP frees the lock, whatever it answers
ReturnUnlocks ==
    \A i \in Reqs :
        (req[i].pc /= "done" /\ req'[i].pc = "done")
            => lock = i /\ lock' = 0 /\ req[i].pc = "respond"

\* every request that waits for the lock is served to its end
EveryRequestCompletes ==
    \A i \in Reqs : (req[i].pc = "waiting") ~> (req[i].pc = "done")

\* C30: the lock is released on every exit path of ServeHTTP (success,
\* error of PUT or DELETE, 405): after any request returns the lock is
\* free, and under fair scheduling and terminating operations every
\* request that waits for the lock eventually acquires it and completes.
C30_LockReleased ==
    /\ []LockHeldWhileServing
    /\ [][ReturnUnlocks]_vars
    /\ EveryRequestCompletes

\* a PUT whose swap and rollback failed and a request answered 405 have
\* both returned, one after the other, and the lock is free
C30_Witness ==
    \E i, j \in Reqs :
        /\ req[i].pc = "done" /\ req[j].pc = "done"
        /\ order = <<i, j>>
        /\ req[i].rollbackErr /\ req[i].err.status = StatusInternalServerError
        /\ req[j].err.status = StatusMethodNotAllowed
        /\ lock = 0

----------------------------------------------------------------------------
(* entries that are neither directories nor regular files *)

\* the header the walk has just taken from the reader
LastWalked(r) == r.walked[Len(r.walked)]

\* one turn of the loop of extractTar
WalkedOne ==
    req[1].pc = "extract" /\ Len(req'[1].walked) = Len(req[1].walked) + 1

OtherType(hdr) == hdr.typeflag \notin {"dir", "reg"}

\* the turn changed nothing and the loop goes on
EntrySkipped ==
    /\ fs' = fs
    /\ req'[1].pc = "extract"
    /\ req'[1].err = NoError
    /\ req'[1].failed = req[1].failed

\* C36 as stated: an entry that is neither a directory nor a regular file
\* creates nothing, does not fail the extraction and does not end the walk.
C36_OtherSkippedAlways ==
    [][(WalkedOne /\ OtherType(LastWalked(req[1])')) => EntrySkipped]_vars

\* C36: an entry that is neither a directory nor a regular file, its name
\* passing the path traversal check, creates no filesystem object, does
\* not fail the extraction, and the entries after it are still processed.
C36_OtherSkipped ==
    [][(/\ WalkedOne
        /\ OtherType(LastWalked(req[1])')
        /\ Contained(Join(TarRoot, LastWalked(req[1])'.name), TarRoot))
            => EntrySkipped]_vars

\* an entry of another type named a was walked, then a regular file a: the
\* file is in the staging root and the walk goes on
C36_Witness ==
    /\ req[1].pc = "extract"
    /\ Len(req[1].walked) = 2
    /\ req[1].walked[1] = Entry(<<"a">>, "other", <<"b">>)
    /\ req[1].walked[2] = Entry(<<"a">>, "reg", <<"b">>)
    /\ NoFault(req[1])
    /\ fs0 = StagedSite(DeployedSite)
    /\ Snapshot(fs, TarRoot) = {<<<<>>, DirNode>>, <<<<"/", "a">>, FileNode(<<"b">>)>>}

\* an entry of another type whose name leaves the staging root ends the
\* walk with the path traversal error
OtherEscapingRejected ==
    /\ req[1].walked /= <<>>
    /\ OtherType(LastWalked(req[1]))
    /\ LastWalked(req[1]).name = <<".", ".">>
    /\ req[1].err.status = StatusInternalServerError
    /\ req[1].err.private.text = "security error: path traversal"

----------------------------------------------------------------------------
(* the content types of directory uploads *)

\* a directory PUT of a tar or gzip archive whose entries stay in the
\* staging root is past its extraction, os.MkdirAll and every call of the
\* extraction having succeeded
DispatchedUpload(r) ==
    /\ IsPut(r) /\ isDirectory(r)
    /\ r.pc \notin {"waiting", "mkdir", "extract"}
    /\ Len(r.trace) >= 2 /\ r.trace[1] = "ok" /\ r.trace[2] = "ok"
    /\ r.body.fmt \in {"tar", "targz"}
    /\ \A k \in 1..Len(r.body.entries) : ~Escapes(r, r.body.entries[k].name)

\* extractDirectory returned an error of this text, wrapping the error of
\* one of these calls, and HandlePut returned it
ExtractRefused(r, text, calls) ==
    /\ "extract" \in r.failed
    /\ r.staged = {}
    /\ r.err.status = StatusInternalServerError
    /\ r.err.private.text = text
    /\ \E c \in calls : r.err.private.wraps = <<c>>

\* the reader yielded the entries of the archive: its tree was staged, or
\* an entry could not be made where an earlier entry is in its way
Unpacked(r) ==
    \/ "extract" \notin r.failed /\ r.staged = TreeContent(r.body.entries)
    \/ ExtractRefused(r, "failed to extract tar", {"os.MkdirAll", "os.OpenFile"})

\* C37: "application/x-tar" and "application/tar" are extracted as plain
\* tar; "application/x-tar+gzip", "application/tar+gzip",
\* "application/x-gzip" and "application/gzip" as gzip-compressed tar;
\* every other content type, the empty one and one with parameters
\* included, yields 400 with a non-empty public message and no extraction.
C37_ContentTypeDispatch ==
    \A i \in Reqs :
        LET r == req[i]
        IN  DispatchedUpload(r) =>
              IF r.ctype \in {"application/x-tar", "application/tar"}
              THEN IF r.body.fmt = "tar" THEN Unpacked(r)
                   ELSE ExtractRefused(r, "failed to extract tar", {"tar.Next"})
              ELSE IF r.ctype \in {"application/x-tar+gzip", "application/tar+gzip",
                                   "application/x-gzip", "application/gzip"}
              THEN IF r.body.fmt = "targz" THEN Unpacked(r)
                   ELSE ExtractRefused(r, "failed to wrap body in gzip reader",
                                       {"gzip.NewReader"})
              ELSE /\ "extract" \in r.failed
                   /\ r.err.status = StatusBadRequest
                   /\ r.err.public /= ""
                   /\ r.staged = {}
                   /\ Returned(r) => StagingContent(r) = EmptyDir

\* a gzip archive under "application/x-gzip" was unpacked and deployed,
\* and so was a tar archive under "application/tar"
C37_Witness ==
    \E i \in Reqs :
        /\ DispatchedUpload(req[i]) /\ PutSucceeded(req[i]) /\ NoFault(req[i])
        /\ req[i].ctype = "application/x-gzip"
        /\ req[i].body.fmt = "targz"
        /\ TargetContent(req[i]) = TreeContent(<<Entry(<<"a">>, "reg", <<"b">>)>>)

\* a tar archive under a content type with parameters was refused with
\* 400 and nothing of it was extracted
ParametersRefused ==
    \E i \in Reqs :
        /\ DispatchedUpload(req[i]) /\ Returned(req[i])
        /\ req[i].ctype = "application/x-tar; charset=utf-8"
        /\ req[i].err.status = StatusBadRequest
        /\ StagingContent(req[i]) = EmptyDir

----------------------------------------------------------------------------
(* the staging and the backup path next to the target *)

\* HandlePut has computed both paths of its transaction
PathsComputed(r) == r.targetTemp /= <<>> /\ r.targetBackup /= <<>>

\* the directory that holds p
Parent(p) == Dir(Clean(p))

\* p is a sibling of the target: in the same directory, not in its tree
SiblingOf(target, p) ==
    /\ Parent(p) = Parent(target)
    /\ ~Under(Clean(target), Clean(p))

\* three different paths, siblings, directories alike
SiblingPaths(r) ==
    /\ r.targetTemp /= r.target
    /\ r.targetBackup /= r.target
    /\ r.targetTemp /= r.targetBackup
    /\ Clean(r.targetTemp) /= Clean(r.target)
    /\ Clean(r.targetBackup) /= Clean(r.target)
    /\ Clean(r.targetTemp) /= Clean(r.targetBackup)
    /\ SiblingOf(r.target, r.targetTemp)
    /\ SiblingOf(r.target, r.targetBackup)
    /\ HasSuffix(r.targetTemp, Sep) <=> HasSuffix(r.target, Sep)
    /\ HasSuffix(r.targetBackup, Sep) <=> HasSuffix(r.target, Sep)

\* a clean path other than the filesystem root, with or without one
\* separator after it
NamesEntry(target) ==
    /\ TrimSuffix(target, Sep) = Clean(TrimSuffix(target, Sep))
    /\ TrimSuffix(target, Sep) /= Sep

RootStagedInside ==
    /\ PathsComputed(req[1])
    /\ req[1].target = <<"/", "/">>
    /\ Under(Clean(req[1].target), Clean(req[1].targetTemp))

----------------------------------------------------------------------------
(* a stale staging path *)

\* something was at the staging path of the single-file PUT r when it was
\* dispatched, and r is past its extraction
StaleStaging(r) ==
    /\ IsPut(r) /\ ~isDirectory(r)
    /\ Clean(getTempPath(r.id, r.target)) \in DOMAIN r.before
    /\ r.pc \notin {"waiting", "mkdir", "extract"}
    /\ "mkdir" \notin r.failed

\* C35: single-file staging is exclusive-create: when the staging path
\* exists already, extractFile fails, what is at the staging path keeps
\* its content, and the PUT fails without touching the target.
C35_StaleStagingRefused ==
    \A i \in Reqs :
        LET r == req[i]
        IN  StaleStaging(r) =>
              /\ "extract" \in r.failed
              /\ r.err.status = StatusInternalServerError
              /\ r.err.private.text = "failed to open target file for extraction"
              /\ r.pc \in {"respond", "done"}
              /\ Returned(r) =>
                    /\ StagingContent(r) = Snapshot(r.before, getTempPath(r.id, r.target))
                    /\ TargetContent(r) = r.old
                    /\ fs = r.before

\* an earlier request has deployed a file at the path that is the staging
\* path of the PUT of /f: the PUT was refused and the file holds its bytes
C35_Witness ==
    \E i \in Reqs :
        /\ StaleStaging(req[i]) /\ Returned(req[i]) /\ NoFault(req[i])
        /\ req[i].path = PathFile
        /\ req[i].body.bytes = <<"a">>
        /\ StagingContent(req[i]) = {<<<<>>, FileNode(<<"s">>)>>}
        /\ fs0 = DeployedSite
        /\ TargetContent(req[i]) = {<<<<>>, FileNode(<<"o">>)>>}

----------------------------------------------------------------------------
(* the body of a PUT *)

\* the step of HandlePut at which r returned its error
FailedAt(r, pc) == PutFailed(r) /\ pc \in r.failed

\* C39: the body of a PUT is closed on every exit path of HandlePut:
\* success, staging failure, stat failure, backup failure or swap failure.
\* Whenever HandlePut has returned, its deferred Close has run.
C39_BodyClosed ==
    \A i \in Reqs :
        (IsPut(req[i]) /\ req[i].pc \in {"respond", "done"}) => req[i].closed

\* a PUT whose swap failed and was rolled back has returned after a PUT
\* that succeeded: the bodies of both are closed
C39_Witness ==
    \E i, j \in Reqs :
        /\ order = <<i, j>>
        /\ req[i].pc = "done" /\ req[i].err.status = 0 /\ IsPut(req[i])
        /\ req[i].closed
        /\ FailedAt(req[j], "swap") /\ ~req[j].rollbackErr
        /\ req[j].closed

\* the other exit paths of HandlePut: a PUT has returned the error of its
\* staging, of os.Stat or of the backup rename, its body closed
ClosedOnEarlyReturn ==
    \E i \in Reqs :
        /\ \/ FailedAt(req[i], "mkdir")
           \/ FailedAt(req[i], "extract")
           \/ FailedAt(req[i], "stat")
           \/ FailedAt(req[i], "backup")
        /\ req[i].closed

----------------------------------------------------------------------------
(* the multipart variant of the deployer: StaticSiteDeployer of package   *)
(* caddy_static_deployer.  It takes no lock, stages the archive in a      *)
(* directory of os.MkdirTemp and backs the target up at a path with a     *)
(* fixed suffix.                                                          *)

\* strings.TrimSuffix(directory, "/") + ".backup/"
Deployer_getBackupPath(directory) ==
    TrimSuffix(directory, Sep) \o <<".", "b", "a", "c", "k", "u", "p", "/">>

\* a cleanup that removes nothing
Deployer_removeNothing(f, directory, flt) == f

\* removeDirectory: os.RemoveAll when os.Stat finds the directory; the
\* errors are logged only.  The result is the filesystem.
Deployer_removeDirectory(f, directory, flt) ==
    IF Stat(f, directory, "ok") = "ok" THEN RemoveAll(f, directory, flt).fs ELSE f

\* the loop of extractTarToTemp over the entries of the archive; flt is the
\* result of the system call that writes the first entry.  On an error the
\* name returned is "".
RECURSIVE Deployer_extractEntries(_, _, _, _)
Deployer_extractEntries(f, tempDir, entries, flt) ==
    IF entries = <<>> THEN [fs |-> f, tempDir |-> tempDir, err |-> FALSE]
    ELSE CHOOSE result \in
        { IF ~HasPrefix(targetPath, tempDir)
          THEN [fs |-> f, tempDir |-> <<>>, err |-> TRUE]
          ELSE IF Head(entries).typeflag \notin {"dir", "reg"}
          THEN Deployer_extractEntries(f, tempDir, Tail(entries), "ok")
          ELSE CHOOSE written \in
              { IF w.err THEN [fs |-> w.fs, tempDir |-> <<>>, err |-> TRUE]
                ELSE Deployer_extractEntries(w.fs, tempDir, Tail(entries), "ok")
                : w \in { IF Head(entries).typeflag = "dir"
                          THEN MkdirAll(f, targetPath, flt)
                          ELSE CHOOSE opened \in
                              { IF m.err THEN m
                                ELSE WriteFile(m.fs, targetPath, Head(entries).data,
                                               FALSE, flt)
                                : m \in {MkdirAll(f, Dir(targetPath), "ok")} } : TRUE } }
              : TRUE
          : targetPath \in {Join(tempDir, Head(entries).name)} } : TRUE

\* the directory os.MkdirTemp("", "artifact-") makes when it draws name:
\* os.TempDir() + "/artifact-" + name
MkdirTemp(name) ==
    <<"/", "t", "m", "p", "/", "a", "r", "t", "i", "f", "a", "c", "t", "-">> \o name

\* extractTarToTemp: os.MkdirTemp makes the directory (it draws a name
\* that is free), then the entries are extracted below it.  The tar reader
\* fails at its first Next on bytes that are no tar stream.
Deployer_extractTarToTemp(f, name, body, flt) ==
    CHOOSE result \in
        { IF flt = "mkdirtemp" \/ Dir(tempDir) \notin DOMAIN f
          THEN [fs |-> f, tempDir |-> <<>>, err |-> TRUE]
          ELSE IF TarRead(body).err
          THEN [fs |-> f @@ (tempDir :> DirNode), tempDir |-> <<>>, err |-> TRUE]
          ELSE Deployer_extractEntries(f @@ (tempDir :> DirNode), tempDir,
                                       TarRead(body).entries, flt)
          : tempDir \in {MkdirTemp(name)} } : TRUE

\* ExtractTarToTemp: the wrapper that removes the directory named by
\* extractTarToTemp when it returns an error (os.RemoveAll("") removes
\* nothing)
Deployer_ExtractTarToTemp(f, name, body, flt) ==
    CHOOSE result \in
        { IF x.err
          THEN [fs |-> IF x.tempDir = <<>> THEN x.fs
                       ELSE RemoveAll(x.fs, x.tempDir, "ok").fs,
                tempDir |-> <<>>, err |-> TRUE]
          ELSE x
          : x \in {Deployer_extractTarToTemp(f, name, body, flt)} } : TRUE

\* rollback(targetDirectory), one system call at a time: os.Stat of the
\* backup, os.RemoveAll of the target, os.Rename of the backup onto the
\* target.  next is the call that follows, "return" when rollback returns.
Deployer_rollback(f, targetDirectory, pc, flt) ==
    IF pc = "rb_stat"
    THEN [fs |-> f, err |-> Stat(f, Deployer_getBackupPath(targetDirectory), flt) /= "ok",
          next |-> IF Stat(f, Deployer_getBackupPath(targetDirectory), flt) /= "ok"
                   THEN "return" ELSE "rb_remove"]
    ELSE IF pc = "rb_remove"
    THEN CHOOSE result \in
        { [fs |-> rm.fs, err |-> rm.err,
           next |-> IF rm.err THEN "return" ELSE "rb_rename"]
          : rm \in {RemoveAll(f, targetDirectory, flt)} } : TRUE
    ELSE CHOOSE result \in
        { [fs |-> rn.fs, err |-> rn.err, next |-> "return"]
          : rn \in {Rename(f, Deployer_getBackupPath(targetDirectory),
                           targetDirectory, flt)} } : TRUE

\* StaticSiteDeployer.ServeHTTP, one system call at a time (the checks and
\* the extraction into the temporary directory are the first step, name
\* the name os.MkdirTemp draws).  A return sets the status and runs the
\* deferred calls, last deferred first: removeDirectory(backupDirectory)
\* when the backup was made, then removeDirectory(tempDir).  History, for
\* the properties: drawn (the temporary directory made), staged (its tree
\* after the extraction), swapErr, rollbackErr (the call of rollback that
\* failed).
Deployer_ServeHTTP(f, r, flt, name) ==
    LET ret(g, q, status) ==
            Stepped(g, [q EXCEPT !.status = status,
                                 !.pc = IF q.deferBackup THEN "defer_backup"
                                        ELSE "defer_temp"])
        refuse(status) == Stepped(f, [r EXCEPT !.status = status, !.pc = "done"])
        targetDirectory == TargetOf(Root, r.path)
    IN  IF r.pc = "waiting"
        THEN IF r.method /= "PUT" THEN refuse(StatusMethodNotAllowed)
             ELSE IF r.ctype \notin {"multipart/form-data",
                                     "multipart/form-data; boundary=b"}
             THEN refuse(StatusUnprocessableEntity)
             ELSE IF ~HasSuffix(r.path, Sep) THEN refuse(StatusUnprocessableEntity)
             ELSE IF GzipRead(r.body).err THEN refuse(StatusInternalServerError)
             ELSE CHOOSE result \in
                 { IF x.err
                   THEN Stepped(x.fs, [r EXCEPT !.status = StatusInternalServerError,
                                                !.target = targetDirectory,
                                                !.drawn = IF MkdirTemp(name) \in DOMAIN x.fs
                                                          THEN name ELSE <<>>,
                                                !.pc = "done"])
                   ELSE Stepped(x.fs, [r EXCEPT !.target = targetDirectory,
                                                !.drawn = name,
                                                !.tempDir = x.tempDir,
                                                !.staged = Snapshot(x.fs, x.tempDir),
                                                !.pc = "stat"])
                   : x \in {Deployer_ExtractTarToTemp(f, name, GzipRead(r.body).body,
                                                      flt)} } : TRUE
        ELSE IF r.pc = "stat"
        THEN CHOOSE result \in
            { IF st = "error" THEN ret(f, r, StatusInternalServerError)
              ELSE IF st = "notexist" THEN Stepped(f, [r EXCEPT !.pc = "mkdir"])
              ELSE Stepped(f, [r EXCEPT !.pc = "backup"])
              : st \in {Stat(f, r.target, flt)} } : TRUE
        ELSE IF r.pc = "mkdir"
        THEN CHOOSE result \in
            { IF m.err THEN ret(m.fs, r, StatusInternalServerError)
              ELSE Stepped(m.fs, [r EXCEPT !.pc = "swap"])
              : m \in {MkdirAll(f, r.target, flt)} } : TRUE
        ELSE IF r.pc = "backup"
        THEN CHOOSE result \in
            { IF rn.err THEN ret(f, r, StatusInternalServerError)
              ELSE Stepped(rn.fs, [r EXCEPT !.deferBackup = TRUE, !.pc = "swap"])
              : rn \in {Rename(f, r.target, Deployer_getBackupPath(r.target), flt)} }
            : TRUE
        ELSE IF r.pc = "swap"
        THEN CHOOSE result \in
            { IF ~rn.err THEN ret(rn.fs, r, 0)
              ELSE IF flt \in {"xdev", "xdevfail"} /\ ~Rename(f, r.tempDir, r.target, "ok").err
              THEN \* "invalid cross-device link": os.CopyFS(targetDirectory, tempDir)
                   IF flt = "xdev"
                   THEN ret(f @@ [q \in {Clean(r.target) \o t[1] : t \in r.staged} |->
                                    (CHOOSE t \in r.staged : Clean(r.target) \o t[1] = q)[2]],
                            r, 0)
                   ELSE Stepped(f @@ (Clean(r.target) :> DirNode),
                                [r EXCEPT !.swapErr = TRUE, !.pc = "rb_stat"])
              ELSE Stepped(f, [r EXCEPT !.swapErr = TRUE, !.pc = "rb_stat"])
              : rn \in {Rename(f, r.tempDir, r.target,
                               IF flt = "ok" THEN "ok" ELSE "fail")} } : TRUE
        ELSE IF r.pc \in RollbackPcs
        THEN CHOOSE result \in
            { IF rb.next = "return"
              THEN ret(rb.fs, [r EXCEPT !.rollbackErr = IF rb.err THEN r.pc ELSE "none"],
                       StatusInternalServerError)
              ELSE Stepped(rb.fs, [r EXCEPT !.pc = rb.next])
              : rb \in {Deployer_rollback(f, r.target, r.pc, flt)} } : TRUE
        ELSE IF r.pc = "defer_backup"
        THEN Stepped(Deployer_removeDirectory(f, Deployer_getBackupPath(r.target), flt),
                     [r EXCEPT !.pc = "defer_temp"])
        ELSE Stepped(Deployer_removeDirectory(f, r.tempDir, flt),
                     [r EXCEPT !.pc = "done"])

\* one step of request i: any request that has not returned may take it,
\* no lock orders them.  A failure of the system call of the step is
\* drawn within the bound.
Serve(i) ==
    /\ req[i].pc /= "done"
    /\ \E name \in IF req[i].pc = "waiting"
                    THEN {n \in {<<"1">>, <<"2">>} :
                            MkdirTemp(n) \notin DOMAIN fs}
                    ELSE {<<>>},
          flt \in IF req[i].pc = "waiting" THEN {"ok", "fail", "mkdirtemp"}
                  ELSE IF req[i].pc = "swap" THEN {"ok", "fail", "xdev", "xdevfail"}
                  ELSE IF req[i].pc = "rb_remove" THEN {"ok", "fail", "partial"}
                  ELSE {"ok", "fail"} :
          /\ flt /= "ok" => req[1].faults + req[2].faults < MaxFaults
          /\ fs' = Deployer_ServeHTTP(fs, req[i], flt, name).fs
          /\ req' = [req EXCEPT ![i] =
                        [Deployer_ServeHTTP(fs, req[i], flt, name).r EXCEPT
                            !.faults = @ + (IF flt = "ok" THEN 0 ELSE 1),
                            !.overlap = @ \/ (req[i].pc = "waiting" /\
                                \E j \in Reqs : req[j].pc \notin {"waiting", "done"})]]
          /\ order' = IF req[i].pc = "waiting" THEN Append(order, i) ELSE order
    /\ UNCHANGED <<lock, fs0>>

\* two requests for the directory /d/ of the site, which holds a directory
\* d or nothing; /tmp exists
InitMulti ==
    /\ fs0 \in { site @@ (<<"/", "t", "m", "p">> :> DirNode)
                 : site \in InitialSites }
    /\ fs = fs0
    /\ lock = 0
    /\ order = <<>>
    /\ req \in [Reqs ->
          { [method |-> "PUT", path |-> PathDir,
             ctype |-> "multipart/form-data; boundary=b", body |-> TarGzBody(<<e>>),
             pc |-> "waiting", target |-> <<>>, tempDir |-> <<>>, status |-> 0,
             deferBackup |-> FALSE, swapErr |-> FALSE, rollbackErr |-> "none",
             faults |-> 0, overlap |-> FALSE, drawn |-> <<>>, staged |-> {}]
            : e \in { Entry(<<"a">>, "reg", <<"1">>),
                      Entry(<<"b">>, "reg", <<"2">>),
                      Entry(<<".", ".", "/", "a", "r", "t", "i", "f", "a", "c", "t",
                              "-", "1", "2">>, "reg", <<"3">>) } }]

NextMulti == \E i \in Reqs : Serve(i)

SpecMulti == InitMulti /\ [][NextMulti]_vars

----------------------------------------------------------------------------
(* the multipart variant: the temporary directory *)

\* ExtractTarToTemp returned a name and no error to request r
Accepted(r) == r.tempDir /= <<>>

\* ExtractTarToTemp returned an error to request r after os.MkdirTemp had
\* made the temporary directory
ExtractFailedAfterMkdirTemp(r) ==
    r.pc = "done" /\ ~Accepted(r) /\ r.drawn /= <<>>

\* C33: whenever the extraction returns an error after the temporary
\* directory was created, the directory created for that extraction no
\* longer exists when ExtractTarToTemp has returned.
C33_ErrorPathsCleanUp ==
    \A i \in Reqs :
        ExtractFailedAfterMkdirTemp(req[i]) =>
            Snapshot(fs, MkdirTemp(req[i].drawn)) = {}

\* the name of an archive fails the check of extractTarToTemp, no call
\* fails: the directory os.MkdirTemp made is left behind
C33_Witness ==
    \E i \in Reqs :
        /\ ExtractFailedAfterMkdirTemp(req[i])
        /\ req[i].faults = 0
        /\ Snapshot(fs, MkdirTemp(req[i].drawn)) = {<< <<>>, DirNode >>}

\* the entries of the archive of request r, as paths joined to the
\* temporary directory (absTargetPath)
EntryPaths(r) ==
    {Join(r.tempDir, r.body.entries[k].name) : k \in 1..Len(r.body.entries)}

\* C34: every entry that passes strings.HasPrefix(absTargetPath, tempDir)
\* resolves to a path inside the temporary directory, the entries naming a
\* sibling whose name extends the name of the directory included: an
\* archive that was extracted has written nothing outside the directory.
C34_PrefixCheckConfines ==
    \A i \in Reqs :
        Accepted(req[i]) =>
            \A p \in EntryPaths(req[i]) :
                HasPrefix(p, req[i].tempDir) => Under(req[i].tempDir, p)

\* an entry named "../artifact-12", extracted into /tmp/artifact-1, has
\* passed the check and written the file /tmp/artifact-12
C34_Witness ==
    \E i \in Reqs :
        /\ Accepted(req[i])
        /\ \E p \in EntryPaths(req[i]) :
              /\ HasPrefix(p, req[i].tempDir) /\ ~Under(req[i].tempDir, p)
              /\ p \in DOMAIN fs /\ fs[p].kind = "file"

----------------------------------------------------------------------------
(* the multipart variant: the backup *)

TargetDirectory == TargetOf(Root, PathDir)

\* the swap of request r failed, then the cleanup of the target or the
\* restoring rename of its rollback failed, and r has returned; no other
\* request has started
FailedRollbackAlone(i) ==
    /\ req[i].pc = "done"
    /\ req[i].deferBackup /\ req[i].swapErr
    /\ req[i].rollbackErr \in {"rb_remove", "rb_rename"}
    /\ \A j \in Reqs \ {i} : req[j].pc = "waiting"

\* C31: when the swap fails and the rollback then fails, the backup
\* directory that holds the previous content still exists after the
\* request has returned.
C31_BackupSurvivesFailedRollback ==
    \A i \in Reqs :
        FailedRollbackAlone(i) =>
            Snapshot(fs, Deployer_getBackupPath(req[i].target)) = Snapshot(fs0, req[i].target)

\* the swap and the restoring rename of a PUT of the deployed directory
\* failed: when the request has returned the backup is removed, the target
\* is absent, no copy of the previous content is left
C31_Witness ==
    \E i \in Reqs :
        /\ FailedRollbackAlone(i)
        /\ req[i].rollbackErr = "rb_rename"
        /\ Snapshot(fs0, req[i].target) /= {}
        /\ Snapshot(fs, Deployer_getBackupPath(req[i].target)) = {}
        /\ Snapshot(fs, req[i].target) = {}

----------------------------------------------------------------------------
(* the multipart variant: requests that overlap *)

AllReturned == \A i \in Reqs : req[i].pc = "done"

\* no request arrived while another was being served
NoOverlap == \A i \in Reqs : ~req[i].overlap

NoFailedCall == \A i \in Reqs : req[i].faults = 0

\* the requests whose archive was extracted, in the order of arrival
AcceptedInOrder ==
    LET accepted(i) == Accepted(req[i])
    IN  SelectSeq(order, accepted)

\* the target was deployed before the first request
Deployed == Snapshot(fs0, TargetDirectory) /= {}

\* what requests served one after the other, no call failing, leave: the
\* tree of the last archive extracted is live, no backup is left and no
\* temporary directory of theirs (a later request whose extraction failed
\* may have left its own under the same name).  (On a site without the
\* target the first request
\* extracted is refused, os.Rename not replacing the directory os.MkdirAll
\* made, and leaves that directory.)
SerialOutcome ==
    LET acc == AcceptedInOrder
    IN  /\ \A k \in 1..Len(acc) :
              req[acc[k]].status = IF Deployed \/ k > 1 THEN 0
                                   ELSE StatusInternalServerError
        /\ Snapshot(fs, TargetDirectory) =
              IF acc = <<>> THEN Snapshot(fs0, TargetDirectory)
              ELSE IF Deployed \/ Len(acc) > 1 THEN req[acc[Len(acc)]].staged
              ELSE {<< <<>>, DirNode >>}
        /\ Snapshot(fs, Deployer_getBackupPath(TargetDirectory)) = {}
        /\ \A i \in Reqs :
              Accepted(req[i]) =>
                  \/ Snapshot(fs, req[i].tempDir) = {}
                  \/ \E j \in Reqs \ {i} : ExtractFailedAfterMkdirTemp(req[j])
                                             /\ req[j].drawn = req[i].drawn

\* C32: the variant with the fixed backup suffix and no lock is unsafe for
\* requests that overlap, and for those only: requests served one after
\* the other leave the serial outcome, while two PUTs of one target that
\* interleave reach a final state that no serial order gives (the witness).
C32_UnsafeOnlyWhenOverlapping ==
    (AllReturned /\ NoFailedCall /\ NoOverlap) => SerialOutcome

\* two PUTs of the deployed directory interleave, no call fails: the
\* rollback of one takes the backup of the other for its own and removes
\* the target; the request that reported success has no content live, the
\* other failed, the previous content is gone with the backup
C32_Witness ==
    /\ AllReturned /\ NoFailedCall /\ Deployed
    /\ \E i, j \in Reqs :
          /\ i /= j /\ req[j].overlap
          /\ Accepted(req[i]) /\ req[i].status = 0
          /\ req[j].status = StatusInternalServerError
          /\ Snapshot(fs, TargetDirectory) = {}
          /\ Snapshot(fs, Deployer_getBackupPath(TargetDirectory)) = {}
    /\ ~SerialOutcome

====
